---- MODULE Spec2Model ----
(***************************************************************************)
(* Model of MATHUSLA::MU::Tracking (include/tracking.hh and tracking.cc,   *)
(* the latter kept as src/unnamed/part_001):                               *)
(* the conversions of a hit collection, the event primaries, a GenParticle *)
(* list and the extra block into Analysis::ROOT::DataEntryList tables.     *)
(*                                                                         *)
(* Numbers.  The tables hold doubles.  Every quantity is modelled by an    *)
(* integer; a deposit is counted in tenths of the canonical energy unit,   *)
(* so that the cut "deposit > 0.5" is "deposit > 5".  Strings that are     *)
(* parsed (chamber ids) are sequences of one-character strings.            *)
(***************************************************************************)
EXTENDS Integers, Sequences, FiniteSets, TLC

VARIABLES collection, particles, event, extra, call, out,
          ntuples, HitAllocator, pools, heap, owner, last,
          prev, pc, options, ui, commands, run

\* the tables of the analysis sink
registry == <<ntuples>>

\* the hit pools of the workers and the hits that live in them
allocator == <<HitAllocator, pools, heap, owner, last>>

\* the run of main
startup == <<pc, options, ui, commands, run>>

\* everything but the inputs and the result of a conversion or builder call
elsewhere == <<registry, allocator, prev, startup>>

vars == <<collection, particles, event, extra, call, out,
          ntuples, HitAllocator, pools, heap, owner, last,
          prev, pc, options, ui, commands, run>>

(***************************************************************************)
(* Bounds of the model.                                                    *)
(***************************************************************************)
MaxHits == 3

(***************************************************************************)
(* Hit (tracking.hh:38-84, tracking.cc:21-30): the direct constructor      *)
(* stores its seven arguments.                                             *)
(***************************************************************************)
LorentzVector(a, b, c, d) == <<a, b, c, d>>

Hit(particle, track, parent, chamber, deposit, position, momentum) ==
  [ _particle  |-> particle,
    _trackID   |-> track,
    _parentID  |-> parent,
    _chamberID |-> chamber,
    _deposit   |-> deposit,
    _position  |-> position,
    _momentum  |-> momentum ]

\* accessors of Hit and of G4LorentzVector (t/e is stored first here)
GetPDGEncoding(hit) == hit._particle
GetTrackID(hit)     == hit._trackID
GetParentID(hit)    == hit._parentID
GetChamberID(hit)   == hit._chamberID
GetDeposit(hit)     == hit._deposit
GetPosition(hit)    == hit._position
GetMomentum(hit)    == hit._momentum
T(v)  == v[1]
X(v)  == v[2]
Y(v)  == v[3]
Z(v)  == v[4]
E(v)  == v[1]
Px(v) == v[2]
Py(v) == v[3]
Pz(v) == v[4]

(***************************************************************************)
(* std::stold on a chamber id, for ids over the characters below: leading  *)
(* white space is skipped, an optional sign is read, then the longest run  *)
(* of digits; what follows the digits is ignored.  With no digit to        *)
(* convert it throws std::invalid_argument.                                *)
(***************************************************************************)
Digits == <<"0", "1", "2", "3", "4", "5", "6", "7", "8", "9">>

IsDigit(c) == \E d \in 1..Len(Digits) : Digits[d] = c

DigitValue(c) == (CHOOSE d \in 1..Len(Digits) : Digits[d] = c) - 1

RECURSIVE SkipSpace(_)
SkipSpace(s) ==
  IF s # <<>> /\ Head(s) = " " THEN SkipSpace(Tail(s)) ELSE s

RECURSIVE ReadDigits(_, _, _)
ReadDigits(s, acc, n) ==
  IF s # <<>> /\ IsDigit(Head(s))
    THEN ReadDigits(Tail(s), 10 * acc + DigitValue(Head(s)), n + 1)
    ELSE [value |-> acc, count |-> n]

\* mutant: a parse that also rejects characters after the number
StoldMutWholeString(id) ==
  LET s    == SkipSpace(id)
      neg  == s # <<>> /\ Head(s) = "-"
      body == IF s # <<>> /\ Head(s) \in {"-", "+"} THEN Tail(s) ELSE s
      r    == ReadDigits(body, 0, 0)
  IN  IF r.count = 0 \/ r.count # Len(body)
        THEN [thrown |-> TRUE,  value |-> 0]
        ELSE [thrown |-> FALSE, value |-> IF neg THEN -r.value ELSE r.value]

Stold(id) ==
  LET s    == SkipSpace(id)
      neg  == s # <<>> /\ Head(s) = "-"
      body == IF s # <<>> /\ Head(s) \in {"-", "+"} THEN Tail(s) ELSE s
      r    == ReadDigits(body, 0, 0)
  IN  IF r.count = 0
        THEN [thrown |-> TRUE,  value |-> 0]
        ELSE [thrown |-> FALSE, value |-> IF neg THEN -r.value ELSE r.value]

(***************************************************************************)
(* The two name maps handed to _convert_to_analysis: the lambda around     *)
(* std::stold (tracking.cc:264) and the lambda around map.find             *)
(* (tracking.cc:272-275).  A NameToDataMap is a function from its keys.    *)
(***************************************************************************)
StoldMap == [kind |-> "stold", map |-> <<>>]

FindMap(map) == [kind |-> "find", map |-> map]

\* mutant: map.at(id), which throws on an absent key
MapFindMutAt(map, id) ==
  IF id \in DOMAIN map
    THEN [thrown |-> FALSE, value |-> map[id]]
    ELSE [thrown |-> TRUE, value |-> 0]

MapFind(map, id) ==
  IF id \in DOMAIN map
    THEN [thrown |-> FALSE, value |-> map[id]]
    ELSE [thrown |-> FALSE, value |-> -1]

name_map(nm, id) ==
  IF nm.kind = "stold" THEN Stold(id) ELSE MapFind(nm.map, id)

(***************************************************************************)
(* DataEntryList helpers: a table of column_count empty columns            *)
(* (tracking.cc:170-178) and one push_back on each column of a row.        *)
(***************************************************************************)
EmptyTable(column_count) == [k \in 1..column_count |-> <<>>]

PushBackRow(table, row) ==
  [k \in 1..Len(table) |-> IF k <= Len(row) THEN Append(table[k], row[k])
                                           ELSE table[k]]

Returned(table) == [thrown |-> FALSE, table |-> table]

Thrown == [thrown |-> TRUE, table |-> <<>>]

(***************************************************************************)
(* _convert_to_analysis (tracking.cc:165-199).                             *)
(***************************************************************************)
HitColumnCount == 14

\* mutant: the push_back of the weight column is forgotten
HitRowMutNoWeight(hit, chamber) ==
  << GetDeposit(hit), T(GetPosition(hit)), chamber, GetPDGEncoding(hit),
     GetTrackID(hit), GetParentID(hit),
     X(GetPosition(hit)), Y(GetPosition(hit)), Z(GetPosition(hit)),
     E(GetMomentum(hit)), Px(GetMomentum(hit)), Py(GetMomentum(hit)),
     Pz(GetMomentum(hit)) >>

\* mutant: x and z are pushed to each other's column
HitRowMutSwapXZ(hit, chamber) ==
  << GetDeposit(hit), T(GetPosition(hit)), chamber, GetPDGEncoding(hit),
     GetTrackID(hit), GetParentID(hit),
     Z(GetPosition(hit)), Y(GetPosition(hit)), X(GetPosition(hit)),
     E(GetMomentum(hit)), Px(GetMomentum(hit)), Py(GetMomentum(hit)),
     Pz(GetMomentum(hit)), 1 >>

\* the fourteen push_backs of one loop iteration (tracking.cc:182-195)
HitRow(hit, chamber) ==
  << GetDeposit(hit), T(GetPosition(hit)), chamber, GetPDGEncoding(hit),
     GetTrackID(hit), GetParentID(hit),
     X(GetPosition(hit)), Y(GetPosition(hit)), Z(GetPosition(hit)),
     E(GetMomentum(hit)), Px(GetMomentum(hit)), Py(GetMomentum(hit)),
     Pz(GetMomentum(hit)), 1 >>

\* the loop over the hits from index i on (tracking.cc:180-196); an
\* exception of name_map leaves the function at once
RECURSIVE FillHitRows(_, _, _, _)
FillHitRows(table, coll, i, nm) ==
  IF i > Len(coll)
    THEN Returned(table)
    ELSE LET hit     == coll[i]
             chamber == name_map(nm, GetChamberID(hit))
         IN  IF chamber.thrown
               THEN Thrown
               ELSE FillHitRows(PushBackRow(table, HitRow(hit, chamber.value)),
                                coll, i + 1, nm)

convert_to_analysis(coll, nm) ==
  FillHitRows(EmptyTable(HitColumnCount), coll, 1, nm)

(***************************************************************************)
(* _convert_to_cut_analysis (tracking.cc:203-256).                         *)
(***************************************************************************)
DepositCutTenths == 5
YCut == 7000
MinLayers == 3

\* mutant: a deposit of exactly 0.5 passes the cut
PassesCutMutInclusive(hit) ==
  /\ Py(GetMomentum(hit)) > 0
  /\ GetDeposit(hit) >= DepositCutTenths
  /\ Y(GetPosition(hit)) > YCut

\* tracking.cc:220
PassesCut(hit) ==
  /\ Py(GetMomentum(hit)) > 0
  /\ GetDeposit(hit) > DepositCutTenths
  /\ Y(GetPosition(hit)) > YCut

\* mutant: the lower edge of an interval belongs to it
InLayerMutClosed(hit, bound) ==
  Y(GetPosition(hit)) >= bound[1] /\ Y(GetPosition(hit)) < bound[2]

\* tracking.cc:222
InLayer(hit, bound) ==
  Y(GetPosition(hit)) > bound[1] /\ Y(GetPosition(hit)) < bound[2]

\* the inner loop over k (tracking.cc:221-225)
RECURSIVE PushLayers(_, _, _, _)
PushLayers(tracker_layers, hit, layer_bounds, k) ==
  IF k > Len(layer_bounds)
    THEN tracker_layers
    ELSE PushLayers(IF InLayer(hit, layer_bounds[k])
                      THEN Append(tracker_layers, k - 1)
                      ELSE tracker_layers,
                    hit, layer_bounds, k + 1)

\* the outer loop over the hits (tracking.cc:218-227)
RECURSIVE CollectLayers(_, _, _, _)
CollectLayers(tracker_layers, coll, layer_bounds, i) ==
  IF i > Len(coll)
    THEN tracker_layers
    ELSE CollectLayers(IF PassesCut(coll[i])
                         THEN PushLayers(tracker_layers, coll[i], layer_bounds, 1)
                         ELSE tracker_layers,
                       coll, layer_bounds, i + 1)

\* std::sort (tracking.cc:230), as an insertion sort
RECURSIVE Insert(_, _)
Insert(x, s) ==
  IF s = <<>> \/ x <= Head(s) THEN <<x>> \o s
                              ELSE <<Head(s)>> \o Insert(x, Tail(s))

RECURSIVE Sort(_)
Sort(s) == IF s = <<>> THEN <<>> ELSE Insert(Head(s), Sort(Tail(s)))

\* std::unique and erase (tracking.cc:231-232): one of each run of equals
RECURSIVE Unique(_)
Unique(s) ==
  IF Len(s) < 2 THEN s
  ELSE IF s[1] = s[2] THEN Unique(Tail(s))
  ELSE <<s[1]>> \o Unique(Tail(s))

\* mutant: the recorded indices are counted without std::unique
TrackerLayersMutNoUnique(coll, layer_bounds) ==
  Sort(CollectLayers(<<>>, coll, layer_bounds, 1))

\* mutant: std::unique on the indices as pushed, without the sort
TrackerLayersMutNoSort(coll, layer_bounds) ==
  Unique(CollectLayers(<<>>, coll, layer_bounds, 1))

TrackerLayers(coll, layer_bounds) ==
  Unique(Sort(CollectLayers(<<>>, coll, layer_bounds, 1)))

\* mutant: a per-hit filter, only the hits that pass the cut are exported
convert_to_cut_analysisMutPerHit(coll, layer_bounds, nm) ==
  IF Len(TrackerLayers(coll, layer_bounds)) >= MinLayers
    THEN FillHitRows(EmptyTable(HitColumnCount),
                     SelectSeq(coll, PassesCut), 1, nm)
    ELSE Returned(EmptyTable(HitColumnCount))

\* mutant: more than three layers are asked for
convert_to_cut_analysisMutMoreThan(coll, layer_bounds, nm) ==
  IF Len(TrackerLayers(coll, layer_bounds)) > MinLayers
    THEN FillHitRows(EmptyTable(HitColumnCount), coll, 1, nm)
    ELSE Returned(EmptyTable(HitColumnCount))

\* mutant: the rows are built, and the chamber ids mapped, before the test
convert_to_cut_analysisMutMapFirst(coll, layer_bounds, nm) ==
  LET filled == FillHitRows(EmptyTable(HitColumnCount), coll, 1, nm)
  IN  IF filled.thrown THEN filled
      ELSE IF Len(TrackerLayers(coll, layer_bounds)) >= MinLayers
        THEN filled
        ELSE Returned(EmptyTable(HitColumnCount))

convert_to_cut_analysis(coll, layer_bounds, nm) ==
  IF Len(TrackerLayers(coll, layer_bounds)) >= MinLayers
    THEN FillHitRows(EmptyTable(HitColumnCount), coll, 1, nm)
    ELSE Returned(EmptyTable(HitColumnCount))

(***************************************************************************)
(* The public overloads on a hit collection (tracking.cc:263-276, 381-387).*)
(***************************************************************************)
ConvertToAnalysisStold(coll) == convert_to_analysis(coll, StoldMap)

ConvertToAnalysisMap(coll, map) == convert_to_analysis(coll, FindMap(map))

ConvertToAnalysisCut(coll, layer_bounds, savecut) ==
  IF savecut
    THEN convert_to_cut_analysis(coll, layer_bounds, StoldMap)
    ELSE convert_to_analysis(coll, StoldMap)

(***************************************************************************)
(* Inputs.  The hits a detector may insert: the reference hit at each of   *)
(* the y positions Ys, and the reference hit with one other field changed  *)
(* (chamber id, deposit at the cut, py at the cut).                        *)
(***************************************************************************)
Ys == {5, 15, 25, 7000, 7005, 7010, 7015, 7025}

ChamberIDs == { <<"1">>, <<"1", "2">>, <<" ", "2">>, <<"1", "L">>, <<"L", "1">> }

MakeHit(chamber, deposit, y, py) ==
  Hit(13, 2, 4, chamber, deposit,
      LorentzVector(3, 40, y, 60), LorentzVector(100, 7, py, 9))

HitUniverse ==
  {MakeHit(<<"1">>, 6, y, 8) : y \in Ys}
    \cup {MakeHit(ch, 6, 7025, 8) : ch \in ChamberIDs}
    \cup {MakeHit(<<"1">>, DepositCutTenths, 7025, 8), MakeHit(<<"1">>, 6, 7025, 0)}

\* name -> number tables handed to the map overload
Maps ==
  { <<>>,
    [id \in {<<"L", "1">>} |-> 1],
    [id \in {<<"1">>, <<"1", "L">>} |-> IF id = <<"1">> THEN 50 ELSE 51] }

\* layer bounds handed to the cut overload
SpecBounds    == << <<0, 10>>, <<10, 20>>, <<20, 30>> >>
TrackerBounds == << <<7000, 7010>>, <<7010, 7020>>, <<7020, 7030>> >>
OverlapBounds == << <<6990, 7030>>, <<7000, 7020>>, <<7020, 7030>>, <<7000, 7030>> >>
LayerBounds   == {SpecBounds, TrackerBounds, OverlapBounds}

(***************************************************************************)
(* EmptyExtra (tracking.hh:128-132).                                       *)
(***************************************************************************)
ExtraColumnCount == 16

EmptyExtra == [k \in 1..ExtraColumnCount |-> <<>>]

(***************************************************************************)
(* The state: the hit collection of the current event, the other inputs of *)
(* the conversions, the last call made and what it gave back.              *)
(***************************************************************************)
NoCall == [op |-> "none"]

NoOut == [thrown |-> FALSE, table |-> <<>>]

\* the names under which tables are declared, and a name not yet declared
TableNames == {"mu", "cosmic"}

NoTable == [declared |-> FALSE]

\* the worker threads, the null pointer, and no allocator operation so far
Workers == {"w1", "w2"}

nullptr == 0

NoOperation == [op |-> "none"]

\* no earlier call remembered
NoPrev == [call |-> NoCall, out |-> NoOut]

\* main before the command line is parsed, and before it has a run manager
NoOptions == [parsed |-> FALSE]

NoRun == [manager |-> "none"]

Init ==
  /\ collection = <<>>
  /\ particles = <<>>
  /\ event = <<>>
  /\ extra = EmptyExtra
  /\ call = NoCall
  /\ out = NoOut
  /\ ntuples = [name \in TableNames |-> NoTable]
  /\ HitAllocator = [w \in Workers |-> nullptr]
  /\ pools = <<>>
  /\ heap = <<>>
  /\ owner = <<>>
  /\ last = NoOperation
  /\ prev = NoPrev
  /\ pc = "parse"
  /\ options = NoOptions
  /\ ui = nullptr
  /\ commands = <<>>
  /\ run = NoRun

\* GenerateHitCollection (tracking.cc:153-159): the next event gets a new,
\* empty collection
NewCollection ==
  /\ call.op # "none"
  /\ collection' = <<>>
  /\ call' = NoCall
  /\ out' = NoOut
  /\ UNCHANGED <<particles, event, extra, elsewhere>>

\* a detector inserts a hit while the event is simulated
InsertHit ==
  /\ call.op = "none"
  /\ Len(collection) < MaxHits
  /\ \E hit \in HitUniverse : collection' = Append(collection, hit)
  /\ UNCHANGED <<particles, event, extra, call, out, elsewhere>>

\* at the end of the event the collection is converted
CallStold ==
  /\ call.op = "none"
  /\ call' = [op |-> "stold"]
  /\ out' = ConvertToAnalysisStold(collection)
  /\ UNCHANGED <<collection, particles, event, extra, elsewhere>>

CallMap ==
  \E map \in Maps :
    /\ call.op = "none"
    /\ call' = [op |-> "map", map |-> map]
    /\ out' = ConvertToAnalysisMap(collection, map)
    /\ UNCHANGED <<collection, particles, event, extra, elsewhere>>

CallCut ==
  \E layer_bounds \in LayerBounds, savecut \in BOOLEAN :
    /\ call.op = "none"
    /\ call' = [op |-> "cut", layer_bounds |-> layer_bounds, savecut |-> savecut]
    /\ out' = ConvertToAnalysisCut(collection, layer_bounds, savecut)
    /\ UNCHANGED <<collection, particles, event, extra, elsewhere>>

Next == NewCollection \/ InsertHit \/ CallStold \/ CallMap \/ CallCut

Spec == Init /\ [][Next]_vars

(***************************************************************************)
(* ConvertToAnalysis(const Physics::GenParticleVector&, bool)              *)
(* (tracking.cc:327-377).  A GenParticle is a record of its fields; pT,    *)
(* eta and phi of the momentum are kept as applications to the momentum.   *)
(***************************************************************************)
MaxParticles == 3

GenColumnCount == 20

GenParticle(index, G4index) ==
  [ index |-> index, G4index |-> G4index, pdgid |-> 13, status |-> 1,
    vertex |-> LorentzVector(3, 40, 50, 60),
    mom    |-> LorentzVector(100, 7, 8, 9),
    moid1 |-> 21, moid2 |-> 22, dau1 |-> 31, dau2 |-> 32, m |-> 105 ]

GenParticleUniverse == {GenParticle(i, g) : i \in 0..1, g \in {-1, 0, 1}}

PT(mom)  == [fn |-> "pT",  of |-> mom]
Eta(mom) == [fn |-> "eta", of |-> mom]
Phi(mom) == [fn |-> "phi", of |-> mom]

\* mutant: an index of 0 is taken as "not transported"
KeepParticleMutPositive(particle, saveall) == saveall \/ particle.G4index > 0

\* tracking.cc:333
KeepParticle(particle, saveall) == saveall \/ particle.G4index >= 0

\* the selection loop (tracking.cc:331-336)
RECURSIVE SelectParticles(_, _, _, _)
SelectParticles(pvec, parts, saveall, index) ==
  IF index > Len(parts)
    THEN pvec
    ELSE SelectParticles(IF KeepParticle(parts[index], saveall)
                           THEN Append(pvec, parts[index])
                           ELSE pvec,
                         parts, saveall, index + 1)

\* the twenty push_backs of one loop iteration (tracking.cc:353-372)
GenRow(particle) ==
  << particle.index, particle.G4index, particle.pdgid, particle.status,
     E(particle.vertex), Px(particle.vertex), Py(particle.vertex), Pz(particle.vertex),
     E(particle.mom), Px(particle.mom), Py(particle.mom), Pz(particle.mom),
     particle.moid1, particle.moid2, particle.dau1, particle.dau2, particle.m,
     PT(particle.mom), Eta(particle.mom), Phi(particle.mom) >>

\* the fill loop (tracking.cc:351-374)
RECURSIVE FillGenRows(_, _, _)
FillGenRows(table, pvec, index) ==
  IF index > Len(pvec)
    THEN table
    ELSE FillGenRows(PushBackRow(table, GenRow(pvec[index])), pvec, index + 1)

ConvertToAnalysisGen(parts, saveall) ==
  Returned(FillGenRows(EmptyTable(GenColumnCount),
                       SelectParticles(<<>>, parts, saveall, 1), 1))

(***************************************************************************)
(* ConvertToAnalysis of a G4Event (tracking.cc:280-323).  An event is      *)
(* the sequence of its primary vertices, a vertex a record of its time,    *)
(* position and primaries.  The values are in the engine's units and are   *)
(* divided by the canonical unit of physics/Units.hh.                      *)
(* Units.hh is not among the sources: the units below are taken as ns, cm, *)
(* MeV and MeV/c in the engine's units, and the inputs as multiples of     *)
(* them; no property stated here depends on their values.                 *)
(***************************************************************************)
MaxVertices == 2
MaxPrimaries == 2

PrimaryColumnCount == 12

UnitsTime == 1
UnitsLength == 10
UnitsEnergy == 1
UnitsMomentum == 1

InUnits(value, unit) == value \div unit

PrimaryParticle(pdg, track) ==
  [ PDGcode |-> pdg, TrackID |-> track, TotalEnergy |-> 100, Momentum |-> <<7, 8, 9>> ]

PrimaryUniverse == {PrimaryParticle(13, 1), PrimaryParticle(-13, 2)}

PrimaryVertex(t0) ==
  [ T0 |-> t0, X0 |-> 400, Y0 |-> 500, Z0 |-> 600, primaries |-> <<>> ]

VertexTimes == {3, 4}

\* mutant: the twelve values with the zero column and the weight exchanged
PrimaryRowMutSwapConstants(vertex, primary) ==
  << primary.PDGcode, primary.TrackID, 1,
     InUnits(vertex.T0, UnitsTime),
     InUnits(vertex.X0, UnitsLength),
     InUnits(vertex.Y0, UnitsLength),
     InUnits(vertex.Z0, UnitsLength),
     InUnits(primary.TotalEnergy, UnitsEnergy),
     InUnits(primary.Momentum[1], UnitsMomentum),
     InUnits(primary.Momentum[2], UnitsMomentum),
     InUnits(primary.Momentum[3], UnitsMomentum),
     0 >>

\* the twelve push_backs of one inner iteration (tracking.cc:303-317)
PrimaryRow(vertex, primary) ==
  << primary.PDGcode, primary.TrackID, 0,
     InUnits(vertex.T0, UnitsTime),
     InUnits(vertex.X0, UnitsLength),
     InUnits(vertex.Y0, UnitsLength),
     InUnits(vertex.Z0, UnitsLength),
     InUnits(primary.TotalEnergy, UnitsEnergy),
     InUnits(primary.Momentum[1], UnitsMomentum),
     InUnits(primary.Momentum[2], UnitsMomentum),
     InUnits(primary.Momentum[3], UnitsMomentum),
     1 >>

\* the inner loop over the particles of one vertex (tracking.cc:300-319)
RECURSIVE FillVertexRows(_, _, _)
FillVertexRows(table, vertex, j) ==
  IF j > Len(vertex.primaries)
    THEN table
    ELSE FillVertexRows(PushBackRow(table, PrimaryRow(vertex, vertex.primaries[j])),
                        vertex, j + 1)

\* the outer loop over the vertices (tracking.cc:297-320)
RECURSIVE FillEventRows(_, _, _)
FillEventRows(table, ev, i) ==
  IF i > Len(ev)
    THEN table
    ELSE FillEventRows(FillVertexRows(table, ev[i], 1), ev, i + 1)

ConvertToAnalysisEvent(ev) ==
  Returned(FillEventRows(EmptyTable(PrimaryColumnCount), ev, 1))

(***************************************************************************)
(* ConvertToAnalysis(const std::vector<std::vector<double>>&)              *)
(* (tracking.cc:391-409).  The block handed in has at least the 16 columns *)
(* that extra[i] reads.                                                    *)
(***************************************************************************)
MaxExtraLen == 2
MaxExtraColumns == 17

\* the copy loop of one column (tracking.cc:403-405)
RECURSIVE CopyEntries(_, _, _)
CopyEntries(entry, extra_i, index) ==
  IF index > Len(extra_i)
    THEN entry
    ELSE CopyEntries(Append(entry, extra_i[index]), extra_i, index + 1)

\* mutant: every column is copied up to the length of the first column
ConvertToAnalysisExtraMutAligned(ex) ==
  Returned([i \in 1..ExtraColumnCount |->
              CopyEntries(<<>>,
                          IF Len(ex[i]) > Len(ex[1])
                          THEN SubSeq(ex[i], 1, Len(ex[1])) ELSE ex[i], 1)])

ConvertToAnalysisExtra(ex) ==
  Returned([i \in 1..ExtraColumnCount |-> CopyEntries(<<>>, ex[i], 1)])

(***************************************************************************)
(* The GenParticle list of an event and its conversion.                    *)
(***************************************************************************)
NewParticles ==
  /\ call.op # "none"
  /\ particles' = <<>>
  /\ call' = NoCall
  /\ out' = NoOut
  /\ UNCHANGED <<collection, event, extra, elsewhere>>

PushParticle ==
  /\ call.op = "none"
  /\ Len(particles) < MaxParticles
  /\ \E particle \in GenParticleUniverse : particles' = Append(particles, particle)
  /\ UNCHANGED <<collection, event, extra, call, out, elsewhere>>

CallGen ==
  \E saveall \in BOOLEAN :
    /\ call.op = "none"
    /\ call' = [op |-> "gen", saveall |-> saveall]
    /\ out' = ConvertToAnalysisGen(particles, saveall)
    /\ UNCHANGED <<collection, particles, event, extra, elsewhere>>

NextGen == NewParticles \/ PushParticle \/ CallGen

SpecGen == Init /\ [][NextGen]_vars

(***************************************************************************)
(* The primary vertices of an event and their conversion.                  *)
(***************************************************************************)
NewEvent ==
  /\ call.op # "none"
  /\ event' = <<>>
  /\ call' = NoCall
  /\ out' = NoOut
  /\ UNCHANGED <<collection, particles, extra, elsewhere>>

AddPrimaryVertex ==
  /\ call.op = "none"
  /\ Len(event) < MaxVertices
  /\ \E t0 \in VertexTimes : event' = Append(event, PrimaryVertex(t0))
  /\ UNCHANGED <<collection, particles, extra, call, out, elsewhere>>

\* a primary is added to the vertex added last
SetPrimary ==
  /\ call.op = "none"
  /\ event # <<>>
  /\ Len(event[Len(event)].primaries) < MaxPrimaries
  /\ \E primary \in PrimaryUniverse :
       event' = [event EXCEPT ![Len(event)].primaries = Append(@, primary)]
  /\ UNCHANGED <<collection, particles, extra, call, out, elsewhere>>

CallEvent ==
  /\ call.op = "none"
  /\ call' = [op |-> "event"]
  /\ out' = ConvertToAnalysisEvent(event)
  /\ UNCHANGED <<collection, particles, event, extra, elsewhere>>

NextEvent == NewEvent \/ AddPrimaryVertex \/ SetPrimary \/ CallEvent

SpecEvent == Init /\ [][NextEvent]_vars

(***************************************************************************)
(* The extra block of an event and its conversion.  The block starts as    *)
(* EmptyExtra(); values are pushed to the columns ExtraFillColumns, and a  *)
(* caller may hand in more columns than the 16 that are read.              *)
(***************************************************************************)
ExtraFillColumns == {1, ExtraColumnCount, ExtraColumnCount + 1}

ExtraValues == {7, 9}

NewExtra ==
  /\ call.op # "none"
  /\ extra' = EmptyExtra
  /\ call' = NoCall
  /\ out' = NoOut
  /\ UNCHANGED <<collection, particles, event, elsewhere>>

PushExtra ==
  /\ call.op = "none"
  /\ \E i \in ExtraFillColumns, value \in ExtraValues :
       /\ i <= Len(extra)
       /\ Len(extra[i]) < MaxExtraLen
       /\ extra' = [extra EXCEPT ![i] = Append(@, value)]
  /\ UNCHANGED <<collection, particles, event, call, out, elsewhere>>

AddExtraColumn ==
  /\ call.op = "none"
  /\ Len(extra) < MaxExtraColumns
  /\ extra' = Append(extra, <<>>)
  /\ UNCHANGED <<collection, particles, event, call, out, elsewhere>>

CallExtra ==
  /\ call.op = "none"
  /\ call' = [op |-> "extra"]
  /\ out' = ConvertToAnalysisExtra(extra)
  /\ UNCHANGED <<collection, particles, event, extra, elsewhere>>

NextExtra == NewExtra \/ PushExtra \/ AddExtraColumn \/ CallExtra

SpecExtra == Init /\ [][NextExtra]_vars

(***************************************************************************)
(* Vocabulary of the claims, in the words of the specification.            *)
(***************************************************************************)
AllColumnsHaveLength(table, n) == \A k \in 1..Len(table) : Len(table[k]) = n

\* a chamber id that is a number and nothing else: digits after an
\* optional sign
IsNumeral(id) ==
  LET body == IF id # <<>> /\ Head(id) \in {"-", "+"} THEN Tail(id) ELSE id
  IN  body # <<>> /\ \A j \in 1..Len(body) : IsDigit(body[j])

\* a chamber id that starts with a number: white space, an optional sign,
\* then a digit
StartsWithNumber(id) ==
  \E j \in 1..Len(id) :
    /\ IsDigit(id[j])
    /\ \A i \in 1..(j - 1) :
         id[i] = " " \/ (i = j - 1 /\ id[i] \in {"-", "+"})

\* deposit > 0.5, py > 0 and y > 7000
Qualifies(hit) ==
  hit._momentum[3] > 0 /\ hit._deposit > 5 /\ hit._position[3] > 7000

\* the distinct layer indices recorded from qualifying hits
LayersReached(coll, bounds) ==
  { k \in 1..Len(bounds) :
      \E i \in 1..Len(coll) :
        /\ Qualifies(coll[i])
        /\ bounds[k][1] < coll[i]._position[3]
        /\ coll[i]._position[3] < bounds[k][2] }

IsCutCall == call.op = "cut" /\ call.savecut

IsEmptyHitTable(result) ==
  ~result.thrown /\ Len(result.table) = 14 /\ AllColumnsHaveLength(result.table, 0)

(***************************************************************************)
(* C1: ConvertToAnalysis(collection) and ConvertToAnalysis(collection,     *)
(* map) return exactly 14 columns, each as long as the collection has      *)
(* hits, the empty collection included.                                    *)
(***************************************************************************)
C1_FourteenColumnsOfHitCount ==
  (call.op \in {"stold", "map"} /\ ~out.thrown) =>
    /\ Len(out.table) = 14
    /\ AllColumnsHaveLength(out.table, Len(collection))

C1_Witness ==
  /\ call.op \in {"stold", "map"}
  /\ ~out.thrown
  /\ Len(collection) >= 2
  /\ Len(out.table) = 14
  /\ Len(out.table[14]) = Len(collection)

(***************************************************************************)
(* C2: row i of the 14-column conversion is built from the i-th hit, and   *)
(* the columns are deposit, time, chamber-numeric (the name mapping        *)
(* applied to the chamber id), pdg code, track id, parent id, x, y, z,     *)
(* momentum e, px, py, pz and the constant 1.                              *)
(***************************************************************************)
CallNameMap ==
  IF call.op = "map" THEN FindMap(call.map) ELSE StoldMap

C2_RowsAndColumnOrder ==
  (call.op \in {"stold", "map"} /\ ~out.thrown) =>
    /\ Len(out.table) = 14
    /\ \A k \in 1..14 : Len(out.table[k]) = Len(collection)
    /\ \A i \in 1..Len(collection) :
         LET hit == collection[i]
             t   == out.table
         IN  /\ t[1][i]  = hit._deposit
             /\ t[2][i]  = hit._position[1]
             /\ t[3][i]  = name_map(CallNameMap, hit._chamberID).value
             /\ t[4][i]  = hit._particle
             /\ t[5][i]  = hit._trackID
             /\ t[6][i]  = hit._parentID
             /\ t[7][i]  = hit._position[2]
             /\ t[8][i]  = hit._position[3]
             /\ t[9][i]  = hit._position[4]
             /\ t[10][i] = hit._momentum[1]
             /\ t[11][i] = hit._momentum[2]
             /\ t[12][i] = hit._momentum[3]
             /\ t[13][i] = hit._momentum[4]
             /\ t[14][i] = 1

C2_Witness ==
  /\ call.op = "stold"
  /\ ~out.thrown
  /\ Len(collection) = 3
  /\ collection[1] # collection[2]
  /\ collection[2] # collection[3]
  /\ out.table[8] = <<collection[1]._position[3], collection[2]._position[3],
                      collection[3]._position[3]>>

(***************************************************************************)
(* C3: in ConvertToAnalysis(collection, map) the chamber column holds the  *)
(* map's value for a chamber id that is a key and -1 for one that is not;  *)
(* an absent id raises no error and drops no row.                          *)
(***************************************************************************)
C3_MapValueOrSentinel ==
  call.op = "map" =>
    /\ ~out.thrown
    /\ Len(out.table) = 14
    /\ Len(out.table[3]) = Len(collection)
    /\ \A i \in 1..Len(collection) :
         LET id == collection[i]._chamberID
         IN  out.table[3][i] = IF id \in DOMAIN call.map THEN call.map[id] ELSE -1

C3_Witness ==
  /\ call.op = "map"
  /\ ~out.thrown
  /\ \E i, j \in 1..Len(collection) :
       /\ collection[i]._chamberID \in DOMAIN call.map
       /\ collection[j]._chamberID \notin DOMAIN call.map
       /\ out.table[3][i] = call.map[collection[i]._chamberID]
       /\ out.table[3][j] = -1

C5_AcceptedExportsEveryHit ==
  (IsCutCall /\ Cardinality(LayersReached(collection, call.layer_bounds)) >= 3) =>
    /\ out = ConvertToAnalysisStold(collection)
    /\ ~out.thrown => /\ Len(out.table) = 14
                      /\ AllColumnsHaveLength(out.table, Len(collection))

C5_Witness ==
  /\ IsCutCall
  /\ Cardinality(LayersReached(collection, call.layer_bounds)) >= 3
  /\ ~out.thrown
  /\ \E i \in 1..Len(collection) : ~Qualifies(collection[i])
  /\ AllColumnsHaveLength(out.table, Len(collection))

(***************************************************************************)
(* C6: with savecut true and fewer than 3 distinct layer indices recorded, *)
(* the cut conversion returns, without an error, 14 columns of length 0.   *)
(***************************************************************************)
C6_RejectedIsEmptyTable ==
  (IsCutCall /\ Cardinality(LayersReached(collection, call.layer_bounds)) < 3) =>
    IsEmptyHitTable(out)

C6_Witness ==
  /\ IsCutCall
  /\ Len(collection) = 3
  /\ Cardinality(LayersReached(collection, call.layer_bounds)) = 2
  /\ IsEmptyHitTable(out)

(***************************************************************************)
(* C7.  The bounds in which some hit's y lies, whatever the hit's other    *)
(* fields.                                                                 *)
(***************************************************************************)
BoundsHit(coll, bounds) ==
  { k \in 1..Len(bounds) :
      \E i \in 1..Len(coll) :
        bounds[k][1] < coll[i]._position[3] /\ coll[i]._position[3] < bounds[k][2] }

Front(coll) == SubSeq(coll, 1, Len(coll) - 1)

KeptParticles(parts, saveall) ==
  SelectSeq(parts, LAMBDA p : saveall \/ p.G4index >= 0)

C8_RowsAreKeptParticles ==
  call.op = "gen" =>
    LET kept == KeptParticles(particles, call.saveall)
    IN  /\ ~out.thrown
        /\ Len(out.table) = 20
        /\ AllColumnsHaveLength(out.table, Len(kept))
        /\ \A r \in 1..Len(kept) :
             /\ out.table[1][r] = kept[r].index
             /\ out.table[2][r] = kept[r].G4index
             /\ ~call.saveall => out.table[2][r] >= 0
        /\ Len(kept) = Cardinality({i \in 1..Len(particles) :
                                      call.saveall \/ particles[i].G4index >= 0})
        /\ call.saveall => Len(out.table[1]) = Len(particles)

C8_Witness ==
  /\ call.op = "gen"
  /\ ~call.saveall
  /\ Len(particles) = 3
  /\ particles[1].G4index = 0
  /\ particles[2].G4index < 0
  /\ particles[3].G4index > 0
  /\ out.table[2] = <<0, particles[3].G4index>>

(***************************************************************************)
(* C9: the event-primaries conversion returns 12 columns of equal length,  *)
(* the sum over the vertices of their particle counts; the rows follow the *)
(* vertex index and then the particle index within the vertex; the third   *)
(* column is 0 and the last column 1 in every row; a vertex without        *)
(* particles contributes no row.                                           *)
(***************************************************************************)
RECURSIVE ParticleCount(_, _)
ParticleCount(ev, n) ==
  IF n = 0 THEN 0 ELSE ParticleCount(ev, n - 1) + Len(ev[n].primaries)

C9_PrimaryRows ==
  call.op = "event" =>
    LET t == out.table
    IN  /\ ~out.thrown
        /\ Len(t) = 12
        /\ AllColumnsHaveLength(t, ParticleCount(event, Len(event)))
        /\ \A r \in 1..Len(t[1]) : t[3][r] = 0 /\ t[12][r] = 1
        /\ \A i \in 1..Len(event) :
             \A j \in 1..Len(event[i].primaries) :
               LET r == ParticleCount(event, i - 1) + j
               IN  /\ t[1][r] = event[i].primaries[j].PDGcode
                   /\ t[2][r] = event[i].primaries[j].TrackID
                   /\ t[4][r] = event[i].T0 \div UnitsTime

C9_Witness ==
  /\ call.op = "event"
  /\ Len(event) = 2
  /\ Len(event[1].primaries) = 2
  /\ Len(event[2].primaries) = 1
  /\ event[1].T0 # event[2].T0
  /\ event[1].primaries[1] # event[1].primaries[2]
  /\ Len(out.table[1]) = 3
  /\ out.table[12] = <<1, 1, 1>>

(***************************************************************************)
(* C10: the extra-block conversion returns exactly 16 columns, and output  *)
(* column i is input column i, element for element, for every i in 0..15,  *)
(* whatever the lengths of the other columns; applied to EmptyExtra() it   *)
(* returns 16 empty columns.                                               *)
(***************************************************************************)
C10_ExtraCopiedVerbatim ==
  call.op = "extra" =>
    /\ ~out.thrown
    /\ Len(out.table) = 16
    /\ \A i \in 1..16 :
         /\ Len(out.table[i]) = Len(extra[i])
         /\ \A n \in 1..Len(extra[i]) : out.table[i][n] = extra[i][n]
    /\ extra = EmptyExtra => \A i \in 1..16 : out.table[i] = <<>>

C10_Witness ==
  /\ call.op = "extra"
  /\ Len(extra) > 16
  /\ Len(extra[1]) = 1
  /\ Len(extra[16]) = 2
  /\ extra[16][1] # extra[16][2]
  /\ out.table[1] = extra[1]
  /\ out.table[16] = extra[16]

(***************************************************************************)
(* The settings builders of analysis.hh.  A std::string is the sequence of *)
(* its characters, operator+ is \o.  An argument of a variadic call is a   *)
(* text together with its static type: a string literal or pointer to     *)
(* char, which reaches a const std::string& parameter by a user-defined    *)
(* conversion, or a std::string, which binds to it directly.  Overload     *)
(* resolution is done by the compiler: a call no overload accepts is       *)
(* ill-formed and is no call of any program.                               *)
(***************************************************************************)
MaxArgs == 5

MaxList == 2

SettingTexts == { <<"A">>, <<"B">>, <<"1">> }

SettingPrefixes == { <<"p", "_">>, <<>> }

ArgKinds == {"literal", "string"}

Arg(kind, s) == [kind |-> kind, s |-> s]

ArgUniverse == { Arg(k, s) : k \in ArgKinds, s \in SettingTexts \cup {<<"p", "_">>} }

SeqsUpTo(S, n) == UNION { [1..m -> S] : m \in 0..n }

\* SimSetting(setting_name, setting_text) (analysis.hh:36-37)
SimSetting(name, text) == [name |-> name, text |-> text]

\* mutant: the prefix is put after the name
SimSettingMutSuffix(prefix, name, text) == [name |-> name \o prefix, text |-> text]

\* SimSetting(prefix, setting_name, setting_text) (analysis.hh:38-40)
SimSettingWithPrefix(prefix, name, text) == [name |-> prefix \o name, text |-> text]

\* mutant: a pair already in the list is not added again
AddSettingMutNoDuplicate(list, name, text) ==
  IF \E i \in 1..Len(list) : list[i] = SimSetting(name, text)
  THEN list
  ELSE Append(list, SimSetting(name, text))

\* detail::AddSetting(list, name, text) (analysis.hh:48-52): emplace_back
AddSetting(list, name, text) == Append(list, SimSetting(name, text))

\* detail::AddSettingWithPrefix(list, prefix, name, text) (analysis.hh:53-58)
AddSettingWithPrefix(list, prefix, name, text) ==
  Append(list, SimSettingWithPrefix(prefix, name, text))

IllFormed == [well_formed |-> FALSE, list |-> <<>>]

WellFormed(list) == [well_formed |-> TRUE, list |-> list]

\* the variadic detail::AddSetting(list, name, text, rest...)
\* (analysis.hh:62-69): two arguments go to the three-parameter function,
\* more to the template, which adds a pair and recurses on the rest; no
\* AddSetting takes a list and a single text
RECURSIVE AddSettingRest(_, _)
AddSettingRest(list, rest) ==
  IF Len(rest) < 2 THEN IllFormed
  ELSE IF Len(rest) = 2 THEN WellFormed(AddSetting(list, rest[1].s, rest[2].s))
  ELSE AddSettingRest(AddSetting(list, rest[1].s, rest[2].s),
                      SubSeq(rest, 3, Len(rest)))

\* the variadic detail::AddSettingWithPrefix(list, prefix, name, text,
\* rest...) (analysis.hh:70-78)
RECURSIVE AddSettingWithPrefixRest(_, _, _)
AddSettingWithPrefixRest(list, prefix, rest) ==
  IF Len(rest) < 2 THEN IllFormed
  ELSE IF Len(rest) = 2
    THEN WellFormed(AddSettingWithPrefix(list, prefix, rest[1].s, rest[2].s))
  ELSE AddSettingWithPrefixRest(
         AddSettingWithPrefix(list, prefix, rest[1].s, rest[2].s),
         prefix, SubSeq(rest, 3, Len(rest)))

\* Settings(name, text, rest...) (analysis.hh:84-92)
SettingsPairs(args) ==
  IF Len(args) = 2 THEN WellFormed(AddSetting(<<>>, args[1].s, args[2].s))
  ELSE AddSettingRest(AddSetting(<<>>, args[1].s, args[2].s),
                      SubSeq(args, 3, Len(args)))

\* Settings(prefix, name, text, rest...) (analysis.hh:96-105)
SettingsPrefixPairs(args) ==
  IF Len(args) = 3
  THEN WellFormed(AddSettingWithPrefix(<<>>, args[1].s, args[2].s, args[3].s))
  ELSE AddSettingWithPrefixRest(
         AddSettingWithPrefix(<<>>, args[1].s, args[2].s, args[3].s),
         args[1].s, SubSeq(args, 4, Len(args)))

\* which of the two variadic Settings templates a call with these
\* arguments names (analysis.hh:83-84, 95-96): both accept three or more
\* texts; they differ in the third parameter, a deduced Args&& in the first
\* and a const std::string& in the second.  A literal third argument
\* matches the deduced parameter exactly, so the first is the better match;
\* a std::string third argument matches both equally, and the second, the
\* more specialized template, is chosen
SelectsPrefixOverload(args) == Len(args) >= 3 /\ args[3].kind = "string"

SettingsVariadic(args) ==
  IF Len(args) < 2 THEN IllFormed
  ELSE IF SelectsPrefixOverload(args) THEN SettingsPrefixPairs(args)
  ELSE SettingsPairs(args)

\* the loop of Settings(names, texts) and of Settings(prefix, names, texts)
\* (analysis.hh:118-119, 135-136) from index i on
RECURSIVE EmplaceSettings(_, _, _, _)
EmplaceSettings(list, names, texts, i) ==
  IF i > Len(names) THEN list
  ELSE EmplaceSettings(AddSetting(list, names[i], texts[i]), names, texts, i + 1)

RECURSIVE EmplaceSettingsWithPrefix(_, _, _, _, _)
EmplaceSettingsWithPrefix(list, prefix, names, texts, i) ==
  IF i > Len(names) THEN list
  ELSE EmplaceSettingsWithPrefix(
         AddSettingWithPrefix(list, prefix, names[i], texts[i]),
         prefix, names, texts, i + 1)

\* mutant: lists of unequal length are paired up to the shorter one
SettingsVecMutTruncate(names, texts) ==
  LET n == IF Len(names) < Len(texts) THEN Len(names) ELSE Len(texts)
  IN  EmplaceSettings(<<>>, SubSeq(names, 1, n), SubSeq(texts, 1, n), 1)

\* Settings(names, texts) (analysis.hh:109-121)
SettingsVec(names, texts) ==
  IF Len(names) # Len(texts) \/ Len(names) = 0 \/ Len(texts) = 0
  THEN <<>>
  ELSE EmplaceSettings(<<>>, names, texts, 1)

\* Settings(prefix, names, texts) (analysis.hh:125-138)
SettingsPrefixVec(prefix, names, texts) ==
  IF Len(names) # Len(texts) \/ Len(names) = 0 \/ Len(texts) = 0
  THEN <<>>
  ELSE EmplaceSettingsWithPrefix(<<>>, prefix, names, texts, 1)

\* std::to_string of a std::size_t: the decimal digits, most significant
\* first, no leading zero
RECURSIVE to_string(_)
to_string(n) ==
  IF n < 10 THEN <<Digits[n + 1]>>
  ELSE to_string(n \div 10) \o <<Digits[(n % 10) + 1]>>

\* the loop of IndexedSettings (analysis.hh:150-152, 167-169) from index i
\* on; i counts from 1 here and from 0 in the code
RECURSIVE EmplaceIndexed(_, _, _, _, _)
EmplaceIndexed(list, name, texts, starting_index, i) ==
  IF i > Len(texts) THEN list
  ELSE EmplaceIndexed(
         AddSetting(list, name \o to_string(starting_index + (i - 1)), texts[i]),
         name, texts, starting_index, i + 1)

RECURSIVE EmplaceIndexedWithPrefix(_, _, _, _, _, _)
EmplaceIndexedWithPrefix(list, prefix, name, texts, starting_index, i) ==
  IF i > Len(texts) THEN list
  ELSE EmplaceIndexedWithPrefix(
         AddSettingWithPrefix(list, prefix,
                              name \o to_string(starting_index + (i - 1)), texts[i]),
         prefix, name, texts, starting_index, i + 1)

\* mutant: the names are numbered from 0 whatever starting_index is
IndexedSettingsMutIgnoresStart(name, texts, starting_index) ==
  EmplaceIndexed(<<>>, name, texts, 0, 1)

\* IndexedSettings(name, texts, starting_index = 0UL) (analysis.hh:142-154)
IndexedSettings(name, texts, starting_index) ==
  EmplaceIndexed(<<>>, name, texts, starting_index, 1)

\* IndexedSettings(prefix, name, texts, starting_index = 0UL)
\* (analysis.hh:158-171)
IndexedSettingsWithPrefix(prefix, name, texts, starting_index) ==
  EmplaceIndexedWithPrefix(<<>>, prefix, name, texts, starting_index, 1)

\* the value of the defaulted parameter starting_index (analysis.hh:144, 161)
DefaultStartingIndex == 0

StartingIndexes == {0, 3, 9}

TextLists == SeqsUpTo(SettingTexts, MaxList)

(***************************************************************************)
(* The calls of the settings builders.  call records the call and its      *)
(* arguments, out.table the list it returned; a builder never throws.      *)
(***************************************************************************)
CallSettings ==
  /\ call.op = "none"
  /\ \E args \in SeqsUpTo(ArgUniverse, MaxArgs) :
       LET r == SettingsVariadic(args)
       IN  /\ r.well_formed
           /\ call' = [op |-> "Settings", args |-> args]
           /\ out' = Returned(r.list)
  /\ UNCHANGED <<collection, particles, event, extra, elsewhere>>

CallSettingsVec ==
  /\ call.op = "none"
  /\ \E names \in TextLists, texts \in TextLists :
       /\ call' = [op |-> "SettingsVec", names |-> names, texts |-> texts]
       /\ out' = Returned(SettingsVec(names, texts))
  /\ UNCHANGED <<collection, particles, event, extra, elsewhere>>

CallSettingsPrefixVec ==
  /\ call.op = "none"
  /\ \E prefix \in SettingPrefixes, names \in TextLists, texts \in TextLists :
       /\ call' = [op |-> "SettingsPrefixVec", prefix |-> prefix,
                   names |-> names, texts |-> texts]
       /\ out' = Returned(SettingsPrefixVec(prefix, names, texts))
  /\ UNCHANGED <<collection, particles, event, extra, elsewhere>>

\* with the third argument, or without it and so with its default
CallIndexedSettings ==
  /\ call.op = "none"
  /\ \E name \in SettingTexts, texts \in TextLists,
        defaulted \in BOOLEAN, given \in StartingIndexes :
       LET starting_index == IF defaulted THEN DefaultStartingIndex ELSE given
       IN  /\ defaulted => given = DefaultStartingIndex
           /\ call' = [op |-> "IndexedSettings", name |-> name, texts |-> texts,
                       defaulted |-> defaulted, starting_index |-> starting_index]
           /\ out' = Returned(IndexedSettings(name, texts, starting_index))
  /\ UNCHANGED <<collection, particles, event, extra, elsewhere>>

CallIndexedSettingsWithPrefix ==
  /\ call.op = "none"
  /\ \E prefix \in SettingPrefixes, name \in SettingTexts, texts \in TextLists,
        starting_index \in StartingIndexes :
       /\ call' = [op |-> "IndexedSettingsWithPrefix", prefix |-> prefix,
                   name |-> name, texts |-> texts,
                   starting_index |-> starting_index]
       /\ out' = Returned(IndexedSettingsWithPrefix(prefix, name, texts,
                                                    starting_index))
  /\ UNCHANGED <<collection, particles, event, extra, elsewhere>>

\* the caller is done with the returned list
DropSettings ==
  /\ call.op \in {"Settings", "SettingsVec", "SettingsPrefixVec",
                  "IndexedSettings", "IndexedSettingsWithPrefix"}
  /\ call' = NoCall
  /\ out' = NoOut
  /\ UNCHANGED <<collection, particles, event, extra, elsewhere>>

NextSettings ==
  \/ CallSettings
  \/ CallSettingsVec
  \/ CallSettingsPrefixVec
  \/ CallIndexedSettings
  \/ CallIndexedSettingsWithPrefix
  \/ DropSettings

SpecSettings == Init /\ [][NextSettings]_vars

(***************************************************************************)
(* Vocabulary of the claims about the settings builders.                   *)
(***************************************************************************)
IsSettingsCall == call.op = "Settings"

\* the number the decimal numeral d writes
RECURSIVE NumeralValue(_)
NumeralValue(d) ==
  IF d = <<>> THEN 0
  ELSE 10 * NumeralValue(SubSeq(d, 1, Len(d) - 1)) + DigitValue(d[Len(d)])

\* d is the decimal text of n: digits only, no leading zero, value n
IsDecimalTextOf(d, n) ==
  /\ d # <<>>
  /\ \A j \in 1..Len(d) : IsDigit(d[j])
  /\ Len(d) > 1 => d[1] # "0"
  /\ NumeralValue(d) = n

\* name is base followed by the decimal text of n
IsIndexedName(name, base, n) ==
  /\ Len(name) > Len(base)
  /\ SubSeq(name, 1, Len(base)) = base
  /\ IsDecimalTextOf(SubSeq(name, Len(base) + 1, Len(name)), n)

C13_IndexedNames ==
  call.op = "IndexedSettings" =>
    /\ ~out.thrown
    /\ Len(out.table) = Len(call.texts)
    /\ call.defaulted => call.starting_index = 0
    /\ \A i \in 1..Len(call.texts) :
         /\ IsIndexedName(out.table[i].name, call.name,
                          call.starting_index + (i - 1))
         /\ out.table[i].text = call.texts[i]
    /\ call.texts = <<>> => out.table = <<>>

C13_Witness ==
  /\ call.op = "IndexedSettings"
  /\ ~call.defaulted
  /\ call.starting_index = 9
  /\ call.texts = << <<"A">>, <<"B">> >>
  /\ out.table = << [name |-> <<"B", "9">>, text |-> <<"A">>],
                    [name |-> <<"B", "1", "0">>, text |-> <<"B">>] >>

(***************************************************************************)
(* C14: Settings(names, texts) returns the empty list, without an error,   *)
(* whenever the two lengths differ or one of them is zero; otherwise it    *)
(* returns a list of the common length n whose entry i is (names[i],       *)
(* texts[i]).                                                              *)
(***************************************************************************)
C14_ParallelSequences ==
  call.op = "SettingsVec" =>
    /\ ~out.thrown
    /\ IF Len(call.names) # Len(call.texts)
          \/ Len(call.names) = 0 \/ Len(call.texts) = 0
       THEN out.table = <<>>
       ELSE /\ Len(out.table) = Len(call.names)
            /\ \A i \in 1..Len(call.names) :
                 out.table[i] = [name |-> call.names[i], text |-> call.texts[i]]

C14_Witness ==
  /\ call.op = "SettingsVec"
  /\ Len(call.names) = 2
  /\ Len(call.texts) = 1
  /\ out.table = <<>>

(***************************************************************************)
(* The table schema of analysis.hh and the analysis sink.  The two default *)
(* lists are those of the header (analysis.hh:204-294).  CreateNTuple and  *)
(* FillNTuple are declared there (analysis.hh:298-307); what they do is    *)
(* taken from the description of the schema registry: a table is declared  *)
(* once per name with its keys and type tags, and a fill supplies one      *)
(* scalar per Single key and one column per Vector key.                    *)
(***************************************************************************)
MaxRows == 2

DefaultDataKeyList ==
  << "NumHits", "Hit_energy", "Hit_time", "Hit_detId",
     "Hit_particlePdgId", "Hit_G4TrackId", "Hit_G4ParentTrackId", "Hit_x",
     "Hit_y", "Hit_z", "Hit_particleEnergy", "Hit_particlePx",
     "Hit_particlePy", "Hit_particlePz", "Hit_weight", "NumGenParticles",
     "GenParticle_index", "GenParticle_G4index", "GenParticle_pdgid",
     "GenParticle_status", "GenParticle_time", "GenParticle_x",
     "GenParticle_y", "GenParticle_z", "GenParticle_energy",
     "GenParticle_px", "GenParticle_py", "GenParticle_pz",
     "GenParticle_mo1", "GenParticle_mo2", "GenParticle_dau1",
     "GenParticle_dau2", "GenParticle_mass", "GenParticle_pt",
     "GenParticle_eta", "GenParticle_phi", "COSMIC_EVENT_ID",
     "COSMIC_CORE_X", "COSMIC_CORE_Y", "COSMIC_GEN_PRIMARY_ENERGY",
     "COSMIC_GEN_THETA", "COSMIC_GEN_PHI", "COSMIC_GEN_FIRST_HEIGHT",
     "COSMIC_GEN_ELECTRON_COUNT", "COSMIC_GEN_MUON_COUNT",
     "COSMIC_GEN_HADRON_COUNT", "COSMIC_GEN_PRIMARY_ID", "EXTRA_11",
     "EXTRA_12", "EXTRA_13", "EXTRA_14", "EXTRA_15" >>

\* DataKeyType (analysis.hh:201)
DataKeyType == {"Single", "Vector"}

\* mutant: the two Single tags one position late
DefaultDataKeyTypeListMutShifted ==
  [k \in 1..52 |-> IF k \in {2, 17} THEN "Single" ELSE "Vector"]

\* mutant: the number of GenParticles is tagged as a vector
DefaultDataKeyTypeListMutOneSingle ==
  [k \in 1..52 |-> IF k = 1 THEN "Single" ELSE "Vector"]

DefaultDataKeyTypeList ==
  << "Single", "Vector", "Vector", "Vector", "Vector", "Vector", "Vector",
     "Vector", "Vector", "Vector", "Vector", "Vector", "Vector", "Vector",
     "Vector", "Single", "Vector", "Vector", "Vector", "Vector", "Vector",
     "Vector", "Vector", "Vector", "Vector", "Vector", "Vector", "Vector",
     "Vector", "Vector", "Vector", "Vector", "Vector", "Vector", "Vector",
     "Vector", "Vector", "Vector", "Vector", "Vector", "Vector", "Vector",
     "Vector", "Vector", "Vector", "Vector", "Vector", "Vector", "Vector",
     "Vector", "Vector", "Vector" >>

\* a small table and lists of unequal length, to declare beside the default
SmallDataKeyList == <<"NumHits", "Hit_energy">>

SmallDataKeyTypeList == <<"Single", "Vector">>

Schemas ==
  { [columns |-> DefaultDataKeyList, types |-> DefaultDataKeyTypeList],
    [columns |-> SmallDataKeyList, types |-> SmallDataKeyTypeList],
    [columns |-> SmallDataKeyList, types |-> <<"Single">>] }

\* how many of the tags are the given one
CountOf(types, tag) == Cardinality({ k \in 1..Len(types) : types[k] = tag })

\* what a registry call gives back to its caller: success or failure
Reported(success) == [thrown |-> FALSE, table |-> <<>>, success |-> success]

\* CreateNTuple(name, columns, types): the table of that name afterwards,
\* and whether it was declared by this call
CreateNTuple(tables, name, columns, types) ==
  IF tables[name].declared \/ Len(columns) # Len(types)
  THEN [success |-> FALSE, tables |-> tables]
  ELSE [success |-> TRUE,
        tables |-> [tables EXCEPT ![name] =
                      [declared |-> TRUE, columns |-> columns,
                       types |-> types, rows |-> <<>>]]]

\* mutant: the number of vector columns is not compared
FillNTupleMutNoVectorCheck(tables, name, types, single_values, vector_values) ==
  IF \/ ~tables[name].declared
     \/ Len(single_values) # CountOf(types, "Single")
  THEN [success |-> FALSE, tables |-> tables]
  ELSE [success |-> TRUE,
        tables |-> [tables EXCEPT ![name].rows =
                      Append(@, [single_values |-> single_values,
                                 vector_values |-> vector_values])]]

\* FillNTuple(name, types, single_values, vector_values)
FillNTuple(tables, name, types, single_values, vector_values) ==
  IF \/ ~tables[name].declared
     \/ Len(single_values) # CountOf(types, "Single")
     \/ Len(vector_values) # CountOf(types, "Vector")
  THEN [success |-> FALSE, tables |-> tables]
  ELSE [success |-> TRUE,
        tables |-> [tables EXCEPT ![name].rows =
                      Append(@, [single_values |-> single_values,
                                 vector_values |-> vector_values])]]

\* the fills tried: so many scalars and so many columns, all of one value
ScalarCounts == {0, 1, 2, 3}

VectorCounts == {0, 1, 2, 49, 50, 51}

FillValues == {1, 2}

Repeat(n, v) == [i \in 1..n |-> v]

DeclareTable ==
  /\ call.op = "none"
  /\ \E name \in TableNames, schema \in Schemas :
       LET r == CreateNTuple(ntuples, name, schema.columns, schema.types)
       IN  /\ call' = [op |-> "CreateNTuple", name |-> name,
                       columns |-> schema.columns, types |-> schema.types]
           /\ out' = Reported(r.success)
           /\ ntuples' = r.tables
  /\ UNCHANGED <<collection, particles, event, extra, allocator, prev, startup>>

\* a fill of a declared table, with the type tags it was declared with
FillTable ==
  /\ call.op = "none"
  /\ \E name \in TableNames, ns \in ScalarCounts, nv \in VectorCounts,
        v \in FillValues :
       /\ ntuples[name].declared
       /\ Len(ntuples[name].rows) < MaxRows
       /\ LET single_values == Repeat(ns, v)
              vector_values == Repeat(nv, <<v>>)
              r == FillNTuple(ntuples, name, ntuples[name].types,
                              single_values, vector_values)
          IN  /\ call' = [op |-> "FillNTuple", name |-> name,
                          types |-> ntuples[name].types,
                          single_values |-> single_values,
                          vector_values |-> vector_values]
              /\ out' = Reported(r.success)
              /\ ntuples' = r.tables
  /\ UNCHANGED <<collection, particles, event, extra, allocator, prev, startup>>

\* a fill of a name that was never declared
FillUndeclared ==
  /\ call.op = "none"
  /\ \E name \in TableNames, v \in FillValues :
       /\ ~ntuples[name].declared
       /\ LET r == FillNTuple(ntuples, name, SmallDataKeyTypeList,
                              <<v>>, << <<v>> >>)
          IN  /\ call' = [op |-> "FillNTuple", name |-> name,
                          types |-> SmallDataKeyTypeList,
                          single_values |-> <<v>>,
                          vector_values |-> << <<v>> >>]
              /\ out' = Reported(r.success)
              /\ ntuples' = r.tables
  /\ UNCHANGED <<collection, particles, event, extra, allocator, prev, startup>>

\* the caller has looked at the result
SeeReport ==
  /\ call.op \in {"CreateNTuple", "FillNTuple"}
  /\ call' = NoCall
  /\ out' = NoOut
  /\ UNCHANGED <<collection, particles, event, extra, registry, allocator,
                 prev, startup>>

NextNTuple == DeclareTable \/ FillTable \/ FillUndeclared \/ SeeReport

SpecNTuple == Init /\ [][NextNTuple]_vars

(***************************************************************************)
(* Vocabulary of the claims about the schema.                              *)
(***************************************************************************)
\* the keys that hold one scalar per event: the two counts
CountKeys == {"NumHits", "NumGenParticles"}

\* a table declared with the default schema
IsDefaultTable(name) ==
  /\ ntuples[name].declared
  /\ ntuples[name].columns = DefaultDataKeyList

\* a fill whose counts do not match the type tags it is given
IsMismatchedFill(c) ==
  /\ c.op = "FillNTuple"
  /\ \/ Len(c.single_values) # CountOf(c.types, "Single")
     \/ Len(c.vector_values) # CountOf(c.types, "Vector")

(***************************************************************************)
(* C15: the default schema has exactly 52 keys and exactly 52 type tags,   *)
(* so len(keys) = len(types), and the k-th type tag is the cardinality of  *)
(* the k-th key: Single for the keys that are one count per event, Vector  *)
(* for all others; a table declared with the default lists has them as its *)
(* columns.                                                                *)
(***************************************************************************)
C15_DefaultSchemaAligned ==
  /\ Len(DefaultDataKeyList) = 52
  /\ Len(DefaultDataKeyTypeList) = 52
  /\ Len(DefaultDataKeyList) = Len(DefaultDataKeyTypeList)
  /\ \A k \in 1..Len(DefaultDataKeyTypeList) :
       /\ DefaultDataKeyTypeList[k] \in DataKeyType
       /\ DefaultDataKeyTypeList[k] = "Single" <=> DefaultDataKeyList[k] \in CountKeys
  /\ \A name \in TableNames :
       IsDefaultTable(name) =>
         /\ Len(ntuples[name].types) = 52
         /\ \A k \in 1..52 :
              ntuples[name].types[k] = "Single"
                <=> ntuples[name].columns[k] \in CountKeys

C15_Witness ==
  /\ IsDefaultTable("mu")
  /\ ntuples["mu"].types = DefaultDataKeyTypeList
  /\ Len(ntuples["mu"].rows) = 1
  /\ Len(ntuples["mu"].rows[1].single_values) = 2
  /\ Len(ntuples["mu"].rows[1].vector_values) = 50

(***************************************************************************)
(* C16: a fill whose number of scalars differs from the number of Single   *)
(* keys, or whose number of vector columns differs from the number of      *)
(* Vector keys, reports failure to the caller and writes nothing: every    *)
(* table is as it was before the call.                                     *)
(***************************************************************************)
C16_MismatchedFillWritesNothing ==
  [][IsMismatchedFill(call') /\ call.op = "none" =>
       /\ ~out'.thrown
       /\ ~out'.success
       /\ ntuples' = ntuples]_vars

C16_Witness ==
  /\ IsMismatchedFill(call)
  /\ IsDefaultTable(call.name)
  /\ Len(call.single_values) = 2
  /\ Len(call.vector_values) = 49
  /\ ~out.success
  /\ Len(ntuples[call.name].rows) = 1

(***************************************************************************)
(* Hits as objects: the pools of the workers (tracking.hh:30, 67-74,       *)
(* tracking.cc:17) and the hits that live in them.  HitAllocator is        *)
(* G4ThreadLocal, one pointer per worker, null until the worker's first    *)
(* allocation.  A G4Allocator is a pool of chunks with a free list:        *)
(* MallocSingle hands out the head of the free list, or a chunk carved     *)
(* from a new page when the list is empty; FreeSingle puts a chunk at the  *)
(* head of the list.  The address of a chunk is the pair of the pool it    *)
(* was carved from and its number there; heap maps the address of every    *)
(* live hit to its fields, and owner to the worker that ran new for it.    *)
(***************************************************************************)
MaxLiveHits == 3

MaxChunks == 3

\* the field values hits are constructed with
HitFields == { MakeHit(<<"1">>, 6, 7005, 8), MakeHit(<<"1", "2">>, 3, 15, 0) }

\* mutant: HitAllocator is one global shared by the workers
ThreadSlotMutGlobal(w) == "w1"

\* the instance of the thread-local HitAllocator that code run by worker w
\* names (tracking.cc:17)
ThreadSlot(w) == w

\* new G4Allocator<Hit>: a pool with no chunk carved yet
EmptyPool == [free |-> <<>>, carved |-> 0]

\* G4Allocator::MallocSingle on pool number p: the chunk handed out and the
\* pool afterwards
MallocSingle(p, pool) ==
  IF pool.free # <<>>
  THEN [chunk |-> Head(pool.free),
        pool |-> [pool EXCEPT !.free = Tail(@)]]
  ELSE [chunk |-> <<p, pool.carved + 1>>,
        pool |-> [pool EXCEPT !.carved = @ + 1]]

\* G4Allocator::FreeSingle
FreeSingle(pool, chunk) == [pool EXCEPT !.free = <<chunk>> \o @]

\* mutant: hits are compared field by field
HitEqualsMutFields(this, rhs) == heap[this] = heap[rhs]

\* Hit::operator== (tracking.hh:63-65); this and rhs are addresses
HitEquals(this, rhs) == this = rhs

\* the chunks carved from pages so far, by all pools together; the model
\* stops carving at MaxChunks
RECURSIVE SumCarved(_)
SumCarved(ps) ==
  IF ps = <<>> THEN 0 ELSE Head(ps).carved + SumCarved(Tail(ps))

\* mutant: operator new makes a pool at every call
NeedsPoolMutAlways(pointer) == TRUE

\* tracking.hh:68: if (!HitAllocator)
NeedsPool(pointer) == pointer = nullptr

\* new Hit(...) run by worker w: Hit::operator new (tracking.hh:67-70), then
\* the constructor (tracking.cc:21-30).  owner remembers which worker ran
\* new for each live hit
NewHit(w) ==
  /\ last.op # "crash"
  /\ Cardinality(DOMAIN heap) < MaxLiveHits
  /\ \E fields \in HitFields :
       LET slot == ThreadSlot(w)
           created == NeedsPool(HitAllocator[slot])
           p == IF created THEN Len(pools) + 1 ELSE HitAllocator[slot]
           before == IF created THEN EmptyPool ELSE pools[p]
           m == MallocSingle(p, before)
       IN  /\ before.free = <<>> => SumCarved(pools) < MaxChunks
           /\ HitAllocator' = [HitAllocator EXCEPT ![slot] = p]
           /\ pools' = IF created THEN Append(pools, m.pool)
                                  ELSE [pools EXCEPT ![p] = m.pool]
           /\ heap' = [a \in DOMAIN heap \cup {m.chunk} |->
                         IF a = m.chunk THEN fields ELSE heap[a]]
           /\ owner' = [a \in DOMAIN heap \cup {m.chunk} |->
                          IF a = m.chunk THEN w ELSE owner[a]]
           /\ last' = [op |-> "new", worker |-> w, pool |-> p, hit |-> m.chunk]
  /\ UNCHANGED <<collection, particles, event, extra, call, out, registry,
                 prev, startup>>

\* delete hit, run by worker w while its HitAllocator points to a pool:
\* Hit::operator delete (tracking.hh:72-74)
DeleteHit(w) ==
  /\ last.op # "crash"
  /\ HitAllocator[ThreadSlot(w)] # nullptr
  /\ \E hit \in DOMAIN heap :
       LET p == HitAllocator[ThreadSlot(w)]
       IN  /\ pools' = [pools EXCEPT ![p] = FreeSingle(@, hit)]
           /\ heap' = [a \in DOMAIN heap \ {hit} |-> heap[a]]
           /\ owner' = [a \in DOMAIN heap \ {hit} |-> owner[a]]
           /\ last' = [op |-> "delete", worker |-> w, pool |-> p, hit |-> hit]
  /\ UNCHANGED <<collection, particles, event, extra, call, out, registry,
                 HitAllocator, prev, startup>>

\* delete hit, run by a worker whose HitAllocator is still null:
\* FreeSingle is called through a null pointer (tracking.hh:73), which is
\* undefined; the process is stopped by the access, or the access goes
\* unnoticed and the storage of the hit is put in no pool
DeleteOnNullPool(w) ==
  /\ last.op # "crash"
  /\ HitAllocator[ThreadSlot(w)] = nullptr
  /\ \E hit \in DOMAIN heap, outcome \in {"crash", "delete"} :
       /\ heap' = IF outcome = "crash" THEN heap
                  ELSE [a \in DOMAIN heap \ {hit} |-> heap[a]]
       /\ owner' = IF outcome = "crash" THEN owner
                   ELSE [a \in DOMAIN heap \ {hit} |-> owner[a]]
       /\ last' = [op |-> outcome, worker |-> w, pool |-> nullptr, hit |-> hit]
  /\ UNCHANGED <<collection, particles, event, extra, call, out, registry,
                 HitAllocator, pools, prev, startup>>

WorkerStep(w) == NewHit(w) \/ DeleteHit(w) \/ DeleteOnNullPool(w)

NextAlloc == \E w \in Workers : WorkerStep(w)

SpecAlloc == Init /\ [][NextAlloc]_vars

(***************************************************************************)
(* Vocabulary of the claims about hits as objects.                         *)
(***************************************************************************)
LiveHits == DOMAIN heap

\* the pool worker w allocates from and releases to, null before it has one
PoolOf(w) == HitAllocator[w]

\* worker v's pointer and pool are after the step what they were before it
PoolUntouched(v) ==
  /\ HitAllocator'[v] = HitAllocator[v]
  /\ HitAllocator[v] # nullptr => pools'[HitAllocator[v]] = pools[HitAllocator[v]]

(***************************************************************************)
(* C17: Hit equality is identity: for live hits a and b, a == b is true    *)
(* exactly when a and b are the same object; two distinct hits constructed *)
(* with identical field values compare unequal, and every hit is equal to  *)
(* itself.                                                                 *)
(***************************************************************************)
C17_EqualityIsIdentity ==
  \A a \in LiveHits, b \in LiveHits :
    /\ HitEquals(a, b) <=> a = b
    /\ (a # b /\ heap[a] = heap[b]) => ~HitEquals(a, b)
    /\ HitEquals(a, a)

C17_Witness ==
  \E a \in LiveHits, b \in LiveHits :
    /\ a # b
    /\ heap[a] = heap[b]
    /\ ~HitEquals(a, b)
    /\ HitEquals(a, a)
    /\ HitEquals(b, b)

(***************************************************************************)
(* C18: under any interleaving of hit allocations and releases by several  *)
(* workers, each worker uses its own pool: the pool a worker allocates     *)
(* from or releases to is never the pool of another worker, and one        *)
(* worker's allocation or release leaves every other worker's pool         *)
(* unchanged.                                                              *)
(***************************************************************************)
C18_EachWorkerItsOwnPool ==
  [][\A w \in Workers :
       WorkerStep(w) =>
         /\ last'.worker = w
         /\ last'.pool = PoolOf(w)'
         /\ \A v \in Workers \ {w} :
              /\ last'.pool # nullptr => last'.pool # PoolOf(v)'
              /\ PoolUntouched(v)]_vars

C18_Witness ==
  /\ PoolOf("w1") # nullptr
  /\ PoolOf("w2") # nullptr
  /\ PoolOf("w1") # PoolOf("w2")
  /\ last.op = "delete"
  /\ last.worker = "w2"
  /\ last.pool = PoolOf("w2")
  /\ last.hit[1] = PoolOf("w1")
  /\ pools[PoolOf("w1")].free = <<>>
  /\ pools[PoolOf("w2")].free # <<>>

(***************************************************************************)
(* The conversions as entry points called again and again, by any worker,  *)
(* on the inputs of one event.  prev remembers one earlier call and what   *)
(* it returned.                                                            *)
(***************************************************************************)
PureCollections ==
  { <<>>,
    << MakeHit(<<"1">>, 6, 7005, 8) >>,
    << MakeHit(<<"1">>, 6, 7005, 8), MakeHit(<<"1", "2">>, 6, 7015, 8),
       MakeHit(<<" ", "2">>, 6, 7025, 8) >>,
    << MakeHit(<<"L", "1">>, 6, 7025, 8) >> }

PureParticleLists == { <<>>, << GenParticle(0, -1), GenParticle(1, 0) >> }

PureEvents ==
  { <<>>,
    << [PrimaryVertex(3) EXCEPT !.primaries = << PrimaryParticle(13, 1) >>] >> }

PureExtras == { EmptyExtra, [EmptyExtra EXCEPT ![1] = <<7>>, ![16] = <<7, 9>>] }

\* the calls made: the entry point and the arguments that are not inputs of
\* the event
Requests ==
  {[op |-> "stold"], [op |-> "event"], [op |-> "extra"]}
    \cup {[op |-> "map", map |-> map] : map \in Maps}
    \cup {[op |-> "cut", layer_bounds |-> TrackerBounds, savecut |-> savecut] :
            savecut \in BOOLEAN}
    \cup {[op |-> "gen", saveall |-> saveall] : saveall \in BOOLEAN}

\* the entry point a request names, with a table that is kept from call to
\* call and never cleared
EntryPointMutStaticTable(request) ==
  LET fresh == CASE request.op = "stold" -> ConvertToAnalysisStold(collection)
                 [] request.op = "map" -> ConvertToAnalysisMap(collection, request.map)
                 [] request.op = "cut" ->
                      ConvertToAnalysisCut(collection, request.layer_bounds,
                                           request.savecut)
                 [] request.op = "gen" -> ConvertToAnalysisGen(particles, request.saveall)
                 [] request.op = "event" -> ConvertToAnalysisEvent(event)
                 [] request.op = "extra" -> ConvertToAnalysisExtra(extra)
  IN  IF fresh.thrown \/ out.thrown \/ Len(out.table) # Len(fresh.table)
      THEN fresh
      ELSE Returned([k \in 1..Len(fresh.table) |-> out.table[k] \o fresh.table[k]])

\* the entry point a request names (tracking.cc:263-409), on the inputs of
\* the event
EntryPoint(request) ==
  CASE request.op = "stold" -> ConvertToAnalysisStold(collection)
    [] request.op = "map" -> ConvertToAnalysisMap(collection, request.map)
    [] request.op = "cut" ->
         ConvertToAnalysisCut(collection, request.layer_bounds, request.savecut)
    [] request.op = "gen" -> ConvertToAnalysisGen(particles, request.saveall)
    [] request.op = "event" -> ConvertToAnalysisEvent(event)
    [] request.op = "extra" -> ConvertToAnalysisExtra(extra)

InitPure ==
  /\ collection \in PureCollections
  /\ particles \in PureParticleLists
  /\ event \in PureEvents
  /\ extra \in PureExtras
  /\ call = NoCall
  /\ out = NoOut
  /\ ntuples = [name \in TableNames |-> NoTable]
  /\ HitAllocator = [w \in Workers |-> nullptr]
  /\ pools = <<>>
  /\ heap = <<>>
  /\ owner = <<>>
  /\ last = NoOperation
  /\ prev = NoPrev
  /\ pc = "parse"
  /\ options = NoOptions
  /\ ui = nullptr
  /\ commands = <<>>
  /\ run = NoRun

\* a worker calls an entry point
Invoke ==
  /\ \E w \in Workers, request \in Requests :
       /\ call' = [op |-> request.op, request |-> request, worker |-> w]
       /\ out' = EntryPoint(request)
  /\ UNCHANGED <<collection, particles, event, extra, registry, allocator,
                 prev, startup>>

\* the same, and the call before it is the one remembered from now on
InvokeAfterNoting ==
  /\ call.op # "none"
  /\ \E w \in Workers, request \in Requests :
       /\ call' = [op |-> request.op, request |-> request, worker |-> w]
       /\ out' = EntryPoint(request)
  /\ prev' = [call |-> call, out |-> out]
  /\ UNCHANGED <<collection, particles, event, extra, registry, allocator,
                 startup>>

NextPure == Invoke \/ InvokeAfterNoting

SpecPure == InitPure /\ [][NextPure]_vars

MaxScriptArgc == 3

NoArgument == <<>>

HasArgument(argument) == argument # NoArgument

\* argv[k] after parsing: the k-th forwarded text
Argv(k) == <<"argv", k>>

\* the texts given to --threads
ThreadTexts ==
  { <<"o", "n">>, <<"o", "f", "f">>, <<"0">>, <<"4">>, <<"1", "2">>,
    <<"4", "x">>, <<"x">>, <<"-", "1">>,
    <<"9", "9", "9", "9", "9", "9", "9", "9", "9", "9">> }

\* how often -j may be given without an argument
MaxOccurrences == 2

\* thread_opt after parsing: absent, given without an argument (count is the
\* number of times it was given, as for vis_opt and quiet_opt), or given
\* once with one of the texts
ThreadOptions ==
  { [argument |-> NoArgument, count |-> k] : k \in 0..MaxOccurrences }
  \cup { [argument |-> <<t>>, count |-> 1] : t \in ThreadTexts }

CommandLines ==
  { [parsed |-> TRUE, argc |-> 1, script |-> NoArgument, events |-> NoArgument,
     vis |-> 0, quiet |-> 0, script_argc |-> 0,
     thread |-> [argument |-> NoArgument, count |-> 0]] }
  \cup
  { [parsed |-> TRUE, argc |-> 2, script |-> s, events |-> e,
     vis |-> v, quiet |-> q, script_argc |-> n, thread |-> j] :
      s \in {NoArgument, <<"run.mac">>}, e \in {NoArgument, <<"100">>},
      v \in {0, 1}, q \in {0, 1}, n \in 0..MaxScriptArgc,
      j \in ThreadOptions }

\* util::error::exit_when(condition, ...): whether the process ends here
exit_when(condition) == condition

\* simulation.cc:56: arguments to forward, and no script to forward them to
IllegalForwarding(o) == o.script_argc # 0 /\ ~HasArgument(o.script)

\* simulation.cc:66: a script and an event count
IncompatibleArguments(o) == HasArgument(o.script) /\ HasArgument(o.events)

\* mutant: the number of forwarded arguments is never rejected
OddForwardingMutNever(o) == FALSE

\* simulation.cc:132: the forwarded arguments are not key-value pairs
OddForwarding(o) == o.script_argc % 2 # 0

\* the loop of simulation.cc:138-140 from i on: one alias per pair
RECURSIVE AliasCommands(_, _)
AliasCommands(i, script_argc) ==
  IF i < script_argc
  THEN << <<"/control/alias", Argv(i + 1), Argv(i + 2)>> >>
         \o AliasCommands(i + 2, script_argc)
  ELSE <<>>

\* util::cli::parse (simulation.cc:53-54)
Parse ==
  /\ pc = "parse"
  /\ options' \in CommandLines
  /\ pc' = "check_forwarding"
  /\ UNCHANGED <<collection, particles, event, extra, call, out, registry,
                 allocator, prev, run, ui, commands>>

\* simulation.cc:56-58
CheckForwarding ==
  /\ pc = "check_forwarding"
  /\ pc' = IF exit_when(IllegalForwarding(options)) THEN "exited" ELSE "make_ui"
  /\ UNCHANGED <<collection, particles, event, extra, call, out, registry,
                 allocator, prev, run, options, ui, commands>>

\* mutant: a session is made only when there is no argument at all
NeedsUIMutNoArguments(o) == o.argc = 1

\* simulation.cc:61: argc == 1 || vis_opt.count
NeedsUI(o) == o.argc = 1 \/ o.vis # 0

\* simulation.cc:60-64
MakeUI ==
  /\ pc = "make_ui"
  /\ IF NeedsUI(options)
     THEN ui' = 1 /\ options' = [options EXCEPT !.vis = 1]
     ELSE UNCHANGED <<ui, options>>
  /\ pc' = "check_incompatible"
  /\ UNCHANGED <<collection, particles, event, extra, call, out, registry,
                 allocator, prev, run, commands>>

\* simulation.cc:66-68
CheckIncompatible ==
  /\ pc = "check_incompatible"
  /\ pc' = IF exit_when(IncompatibleArguments(options)) THEN "exited"
           ELSE "set_up_run"
  /\ UNCHANGED <<collection, particles, event, extra, call, out, registry,
                 allocator, prev, run, options, ui, commands>>

\* the largest int
INT_MAX == 2147483647

\* std::stoi(opt) (simulation.cc:83): white space is skipped, an optional
\* sign is read, then the longest run of digits; what follows the digits is
\* ignored.  It throws std::invalid_argument with no digit to convert and
\* std::out_of_range when the digits read exceed INT_MAX
RECURSIVE ReadInt(_, _, _, _)
ReadInt(s, acc, n, range) ==
  IF s # <<>> /\ IsDigit(Head(s))
    THEN IF ~range \/ acc > (INT_MAX - DigitValue(Head(s))) \div 10
           THEN ReadInt(Tail(s), acc, n + 1, FALSE)
           ELSE ReadInt(Tail(s), 10 * acc + DigitValue(Head(s)), n + 1, TRUE)
    ELSE [value |-> acc, count |-> n, in_range |-> range]

stoi(opt) ==
  LET s    == SkipSpace(opt)
      neg  == s # <<>> /\ Head(s) = "-"
      body == IF s # <<>> /\ Head(s) \in {"-", "+"} THEN Tail(s) ELSE s
      r    == ReadInt(body, 0, 0, TRUE)
  IN  IF r.count = 0 \/ ~r.in_range
        THEN [thrown |-> TRUE,  value |-> 0]
        ELSE [thrown |-> FALSE, value |-> IF neg THEN -r.value ELSE r.value]

\* simulation.cc:74-89: thread_opt.count as the run manager is given it
ThreadCount(thread_opt) ==
  IF HasArgument(thread_opt.argument)
  THEN LET opt == thread_opt.argument[1]
       IN  IF opt = <<"o", "n">> THEN 2
           ELSE IF opt = <<"o", "f", "f">> \/ opt = <<"0">> THEN 1
           ELSE IF stoi(opt).thrown THEN 2 ELSE stoi(opt).value
  ELSE IF thread_opt.count = 0 THEN 2 ELSE thread_opt.count

\* simulation.cc:70-116: the random engine, the run manager, the physics,
\* the detector, the generator and the visualization manager.  Whether the
\* build is multi-threaded (G4MULTITHREADED, lines 73-93) is fixed when the
\* program is built
SetUpRun ==
  /\ pc = "set_up_run"
  /\ \E G4MULTITHREADED \in BOOLEAN :
       IF G4MULTITHREADED
       THEN /\ options' = [options EXCEPT !.thread.count = ThreadCount(options.thread)]
            /\ run' = [manager |-> "G4MTRunManager",
                       threads |-> ThreadCount(options.thread)]
       ELSE /\ run' = [manager |-> "G4RunManager"]
            /\ UNCHANGED options
  /\ pc' = "initialize"
  /\ UNCHANGED <<collection, particles, event, extra, call, out, registry,
                 allocator, prev, ui, commands>>

\* simulation.cc:118-123
Initialize ==
  /\ pc = "initialize"
  /\ commands' = commands \o
       << <<"/run/initialize">>,
          <<"/control/saveHistory", "scripts/G4History">>,
          <<"/control/stopSavingHistory">>,
          IF options.quiet # 0
          THEN <<"/control/execute", "scripts/settings/quiet">>
          ELSE <<"/control/execute", "scripts/settings/verbose">> >>
  /\ pc' = "init_vis"
  /\ UNCHANGED <<collection, particles, event, extra, call, out, registry,
                 allocator, prev, run, options, ui>>

\* simulation.cc:125-129; whether the session is a GUI is up to Geant4.
\* ui->IsGUI() through a null ui is undefined: the process is stopped by
\* the access, or the call gives either answer
InitVis ==
  /\ pc = "init_vis"
  /\ \E IsGUI \in BOOLEAN, stopped \in BOOLEAN :
       /\ stopped => (options.vis # 0 /\ ui = nullptr)
       /\ commands' =
            IF options.vis = 0 THEN commands
            ELSE commands
                   \o << <<"/control/execute", "scripts/settings/init_vis">> >>
                   \o IF IsGUI /\ ~stopped
                      THEN << <<"/control/execute", "scripts/settings/init_gui">> >>
                      ELSE <<>>
       /\ pc' = IF stopped THEN "crashed" ELSE "run"
  /\ UNCHANGED <<collection, particles, event, extra, call, out, registry,
                 allocator, prev, run, options, ui>>

\* simulation.cc:131-147: the script with its aliases, or the events
RunScriptOrEvents ==
  /\ pc = "run"
  /\ IF HasArgument(options.script)
     THEN IF exit_when(OddForwarding(options))
          THEN pc' = "exited" /\ UNCHANGED commands
          ELSE /\ commands' = commands
                    \o AliasCommands(0, options.script_argc)
                    \o << <<"/control/execute", options.script[1]>> >>
               /\ pc' = "session"
     ELSE IF HasArgument(options.events)
          THEN /\ commands' = commands \o << <<"/run/beamOn", options.events[1]>> >>
               /\ pc' = "session"
          ELSE pc' = "session" /\ UNCHANGED commands
  /\ UNCHANGED <<collection, particles, event, extra, call, out, registry,
                 allocator, prev, run, options, ui>>

\* simulation.cc:149-150: the session is started if there is one
Session ==
  /\ pc = "session"
  /\ pc' = IF ui # nullptr THEN "in_session" ELSE "returned"
  /\ UNCHANGED <<collection, particles, event, extra, call, out, registry,
                 allocator, prev, run, options, ui, commands>>

\* simulation.cc:151-156: the session is over, ui is deleted and main returns
EndSession ==
  /\ pc = "in_session"
  /\ pc' = "returned"
  /\ UNCHANGED <<collection, particles, event, extra, call, out, registry,
                 allocator, prev, run, options, ui, commands>>

NextMain ==
  \/ Parse
  \/ CheckForwarding
  \/ MakeUI
  \/ CheckIncompatible
  \/ SetUpRun
  \/ Initialize
  \/ InitVis
  \/ RunScriptOrEvents
  \/ Session
  \/ EndSession

SpecMain == Init /\ [][NextMain]_vars

(***************************************************************************)
(* Vocabulary of the claims about main.                                    *)
(***************************************************************************)
\* an illegal combination of options: arguments forwarded without a
\* script, a script together with an event count, or an odd number of
\* forwarded arguments
IsIllegal(o) ==
  \/ o.script_argc # 0 /\ o.script = NoArgument
  \/ o.script # NoArgument /\ o.events # NoArgument
  \/ o.script_argc % 2 = 1

\* the first two of them
IsRejectedAtOnce(o) ==
  \/ o.script_argc # 0 /\ o.script = NoArgument
  \/ o.script # NoArgument /\ o.events # NoArgument

\* the commands that run the simulation: the aliases and the script, and
\* the events
IsRunCommand(command) ==
  \/ command[1] \in {"/control/alias", "/run/beamOn"}
  \/ command[1] = "/control/execute" /\ command[2] = "run.mac"

\* the commands of simulation.cc:118-129
IsSetUpCommand(command) ==
  \/ command[1] \in {"/run/initialize", "/control/saveHistory",
                     "/control/stopSavingHistory"}
  \/ /\ command[1] = "/control/execute"
     /\ command[2] \in {"scripts/settings/quiet", "scripts/settings/verbose",
                        "scripts/settings/init_vis", "scripts/settings/init_gui"}

HasExited == pc = "exited"

(***************************************************************************)
(* C20, as claimed: start-up rejects the illegal option combinations       *)
(* before any run command is executed: with forwarded arguments and no     *)
(* script, with a script and an event count, or with an odd number of      *)
(* forwarded arguments, no command of the /run/ directory or any other is  *)
(* ever executed.                                                          *)
(***************************************************************************)
C20_Original ==
  (options.parsed /\ IsIllegal(options)) => commands = <<>>

(***************************************************************************)
(* C20, amended: main exits with a fatal error exactly for the illegal     *)
(* combinations.  Forwarded arguments without a script, and a script with  *)
(* an event count, are rejected before any command is executed.  An odd    *)
(* number of forwarded arguments with a script is rejected only after      *)
(* /run/initialize and the settings scripts have been executed, but before *)
(* any alias, the script or /run/beamOn.  /run/beamOn <events> is executed *)
(* only when an event count is given and no script is given.               *)
(***************************************************************************)
C20_RejectsIllegalOptions ==
  /\ HasExited => IsIllegal(options)
  /\ (options.parsed /\ IsIllegal(options)) =>
       /\ pc \notin {"session", "in_session", "returned"}
       /\ \A i \in 1..Len(commands) :
            ~IsRunCommand(commands[i]) /\ IsSetUpCommand(commands[i])
  /\ (options.parsed /\ IsRejectedAtOnce(options)) =>
       /\ commands = <<>>
       /\ pc \in {"check_forwarding", "make_ui", "check_incompatible", "exited"}
  /\ (HasExited /\ ~IsRejectedAtOnce(options)) =>
       /\ Len(commands) >= 4
       /\ commands[1] = <<"/run/initialize">>
  /\ \A i \in 1..Len(commands) :
       commands[i][1] = "/run/beamOn" =>
         /\ options.events # NoArgument
         /\ options.script = NoArgument
         /\ commands[i] = <<"/run/beamOn", options.events[1]>>

C20_Witness ==
  /\ HasExited
  /\ options.script # NoArgument
  /\ options.events = NoArgument
  /\ options.script_argc = 3
  /\ Len(commands) >= 4
  /\ commands[1] = <<"/run/initialize">>
  /\ \A i \in 1..Len(commands) : ~IsRunCommand(commands[i])

(***************************************************************************)
(* The number of threads of a multi-threaded build.                        *)
(***************************************************************************)
\* the build is multi-threaded and the run manager has its thread number
HasThreads == run.manager = "G4MTRunManager"

RECURSIVE StripZeros(_)
StripZeros(d) ==
  IF Len(d) > 1 /\ Head(d) = "0" THEN StripZeros(Tail(d)) ELSE d

\* the numeral text denotes the integer n
Denotes(text, n) ==
  LET neg  == Head(text) = "-"
      body == IF Head(text) \in {"-", "+"} THEN Tail(text) ELSE text
  IN  /\ IF neg THEN n <= 0 ELSE n >= 0
      /\ StripZeros(body) = to_string(IF n < 0 THEN -n ELSE n)

\* n is the number the threads option stands for, read as documented: 2
\* without an argument, 2 for "on", 1 for "off" and "0", the number itself
\* for a numeral, 2 for anything else
IsDocumentedThreads(n, thread_opt) ==
  IF ~HasArgument(thread_opt.argument) THEN n = 2
  ELSE LET opt == thread_opt.argument[1]
       IN  IF opt = <<"o", "n">> THEN n = 2
           ELSE IF opt = <<"o", "f", "f">> \/ opt = <<"0">> THEN n = 1
           ELSE IF IsNumeral(opt) THEN Denotes(opt, n)
           ELSE n = 2

\* C21: in a multi-threaded build the run manager is set to 2 threads when
\* the threads option is absent or has no argument, to 2 for "on", to 1 for
\* "off" and "0", to the number for a numeric argument and to 2 for any
\* other argument
C21_Original ==
  HasThreads => IsDocumentedThreads(run.threads, options.thread)

\* -j was given once without an argument and the run manager has 1 thread
C21_GivenWithoutArgument ==
  /\ HasThreads
  /\ ~HasArgument(options.thread.argument)
  /\ run.threads = 1

(***************************************************************************)
(* The cut filter on its own: collections of the hits that decide its      *)
(* cases, a hit inside each tracker layer, one on the common edge of two,  *)
(* one on each threshold of the cut, and two whose chamber id is not a     *)
(* numeral.                                                                *)
(***************************************************************************)
MaxCutHits == 3

CutHits ==
  {MakeHit(<<"1">>, 6, y, 8) : y \in {YCut, 7005, 7010, 7025}}
    \cup {MakeHit(ch, 6, 7025, 8) : ch \in {<<"1", "L">>, <<"L", "1">>}}
    \cup {MakeHit(<<"1">>, DepositCutTenths, 7025, 8), MakeHit(<<"1">>, 6, 7025, 0)}

InsertCutHit ==
  /\ call.op = "none"
  /\ Len(collection) < MaxCutHits
  /\ \E hit \in CutHits : collection' = Append(collection, hit)
  /\ UNCHANGED <<particles, event, extra, call, out, elsewhere>>

NextCut == NewCollection \/ InsertCutHit \/ CallCut

SpecCut == Init /\ [][NextCut]_vars

(***************************************************************************)
(* The cut filter's layer set.  Recorded(hits, bounds) is the set of the   *)
(* 0-based indices that the loops of the filter push for the hits.         *)
(***************************************************************************)
Elements(s) == {s[j] : j \in 1..Len(s)}

Recorded(hits, bounds) == Elements(CollectLayers(<<>>, hits, bounds, 1))

\* py, deposit or y sits exactly on its threshold
OnThreshold(hit) ==
  hit._momentum[3] = 0 \/ hit._deposit = 5 \/ hit._position[3] = 7000

(***************************************************************************)
(* C22: a hit contributes to the layer set of the cut filter only if       *)
(* py > 0, deposit > 0.5 and y > 7000, all strict: a hit with py = 0,      *)
(* deposit = 0.5 or y = 7000 records no layer index, whatever bounds its y *)
(* lies in, and a collection without a qualifying hit is rejected.         *)
(***************************************************************************)
C22_OnlyQualifyingHitsRecord ==
  IsCutCall =>
    /\ \A i \in 1..Len(collection) :
         /\ Recorded(<<collection[i]>>, call.layer_bounds) # {}
              => Qualifies(collection[i])
         /\ OnThreshold(collection[i])
              => Recorded(<<collection[i]>>, call.layer_bounds) = {}
    /\ Recorded(collection, call.layer_bounds)
         = Recorded(SelectSeq(collection, Qualifies), call.layer_bounds)
    /\ (\A i \in 1..Len(collection) : ~Qualifies(collection[i]))
         => IsEmptyHitTable(out)

\* three hits, one on each threshold, each with its y inside one of the
\* bounds given and together inside all four: nothing is recorded and the
\* collection is rejected
C22_Witness ==
  /\ IsCutCall
  /\ call.layer_bounds = OverlapBounds
  /\ Len(collection) = 3
  /\ collection[1]._momentum[3] = 0
  /\ collection[2]._deposit = 5
  /\ collection[3]._position[3] = 7000
  /\ \A i \in 1..3 : BoundsHit(<<collection[i]>>, OverlapBounds) # {}
  /\ Cardinality(BoundsHit(collection, OverlapBounds)) >= 3
  /\ Recorded(collection, OverlapBounds) = {}
  /\ IsEmptyHitTable(out)

\* the 0-based indices of the bounds that hold y strictly inside
StrictlyInside(y, bounds) ==
  { k - 1 : k \in { j \in 1..Len(bounds) : bounds[j][1] < y /\ y < bounds[j][2] } }

NoRepeats(s) == \A i, j \in 1..Len(s) : i # j => s[i] # s[j]

(***************************************************************************)
(* C23: for a qualifying hit the index k is recorded exactly when          *)
(* min_k < y < max_k, both strict, so a y on the edge of an interval       *)
(* records nothing for it; where intervals overlap every such k is         *)
(* recorded; and the accept test counts each distinct index once: the      *)
(* collection is exported exactly when at least 3 distinct indices were    *)
(* recorded.                                                               *)
(***************************************************************************)
C23_StrictIntervalsCountedOnce ==
  IsCutCall =>
    LET bounds == call.layer_bounds
        layers == TrackerLayers(collection, bounds)
    IN  /\ \A i \in 1..Len(collection) :
             Qualifies(collection[i]) =>
               Recorded(<<collection[i]>>, bounds)
                 = StrictlyInside(collection[i]._position[3], bounds)
        /\ NoRepeats(layers)
        /\ Elements(layers) = {k - 1 : k \in LayersReached(collection, bounds)}
        /\ IF Cardinality(Elements(layers)) >= 3
             THEN out = ConvertToAnalysisStold(collection)
             ELSE IsEmptyHitTable(out)

\* overlapping bounds: one qualifying hit records three indices, six are
\* pushed for the hit given twice, and three are counted
C23_Witness ==
  /\ IsCutCall
  /\ call.layer_bounds = OverlapBounds
  /\ Len(collection) = 2
  /\ collection[1] = collection[2]
  /\ Qualifies(collection[1])
  /\ Len(CollectLayers(<<>>, collection, OverlapBounds, 1)) = 6
  /\ TrackerLayers(collection, OverlapBounds) = <<0, 2, 3>>
  /\ ~IsEmptyHitTable(out)

(***************************************************************************)
(* Hit::Hit(const G4Step* step, bool post) (tracking.cc:34-51).  A step is *)
(* a record of what the constructor reads from it: the track, the total    *)
(* energy deposit and the two step points, under the address the pointer   *)
(* holds; the null step has the address nullptr and nothing to read.  The  *)
(* constructor has no member initializers: before its body runs,           *)
(* _chamberID is the empty string and the two vectors are zero by their    *)
(* own default constructors, and _particle, _trackID, _parentID and        *)
(* _deposit are what the storage of the hit held.                          *)
(***************************************************************************)
StepPoint(time, y, energy, py) ==
  [ GlobalTime |-> time, Position |-> <<40, y, 60>>,
    TotalEnergy |-> energy, Momentum |-> <<7, py, 9>> ]

Track(particle, track, parent, volume) ==
  [ ParticleDefinition |-> particle, TrackID |-> track, ParentID |-> parent,
    TopVolumeName |-> volume ]

NullStep == [address |-> nullptr]

G4Step(track, deposit, pre, post) ==
  [ address |-> 1, Track |-> track, TotalEnergyDeposit |-> deposit,
    PreStepPoint |-> pre, PostStepPoint |-> post ]

\* the members of a hit before the body of a constructor runs
DefaultMembers(storage) ==
  [ _particle  |-> storage._particle,
    _trackID   |-> storage._trackID,
    _parentID  |-> storage._parentID,
    _chamberID |-> <<>>,
    _deposit   |-> storage._deposit,
    _position  |-> LorentzVector(0, 0, 0, 0),
    _momentum  |-> LorentzVector(0, 0, 0, 0) ]

\* G4LorentzVector(t, G4ThreeVector) divided by the units, as at
\* tracking.cc:46-49
PointVector(first, three, first_unit, three_unit) ==
  LorentzVector(InUnits(first, first_unit), InUnits(three[1], three_unit),
                InUnits(three[2], three_unit), InUnits(three[3], three_unit))

\* mutant: the pre-step point is read whatever post says
HitOfStepMutPreOnly(storage, step, post) ==
  IF step.address = nullptr THEN DefaultMembers(storage)
  ELSE Hit(step.Track.ParticleDefinition, step.Track.TrackID,
           step.Track.ParentID, step.Track.TopVolumeName,
           InUnits(step.TotalEnergyDeposit, UnitsEnergy),
           PointVector(step.PreStepPoint.GlobalTime, step.PreStepPoint.Position,
                       UnitsTime, UnitsLength),
           PointVector(step.PreStepPoint.TotalEnergy, step.PreStepPoint.Momentum,
                       UnitsEnergy, UnitsMomentum))

\* tracking.cc:34-51
HitOfStep(storage, step, post) ==
  IF step.address = nullptr THEN DefaultMembers(storage)
  ELSE LET track      == step.Track
           step_point == IF post THEN step.PostStepPoint ELSE step.PreStepPoint
       IN  [ DefaultMembers(storage) EXCEPT
               !._particle  = track.ParticleDefinition,
               !._trackID   = track.TrackID,
               !._parentID  = track.ParentID,
               !._chamberID = track.TopVolumeName,
               !._deposit   = InUnits(step.TotalEnergyDeposit, UnitsEnergy),
               !._position  = PointVector(step_point.GlobalTime,
                                          step_point.Position,
                                          UnitsTime, UnitsLength),
               !._momentum  = PointVector(step_point.TotalEnergy,
                                          step_point.Momentum,
                                          UnitsEnergy, UnitsMomentum) ]

\* what the storage of a new hit may hold: a fresh chunk, or the fields of
\* a hit deleted before
Storages ==
  { [_particle |-> 0, _trackID |-> 0, _parentID |-> 0, _deposit |-> 0],
    [_particle |-> 13, _trackID |-> 2, _parentID |-> 4, _deposit |-> 6] }

StepPoints ==
  { StepPoint(30, 70050, 100, 8), StepPoint(31, 70150, 99, 8),
    StepPoint(32, 70250, 98, 0) }

Tracks == { Track(13, 2, 4, <<"1">>), Track(11, 5, 2, <<"1", "2">>) }

Steps ==
  {NullStep} \cup
  { G4Step(track, deposit, pre, post) :
      track \in Tracks, deposit \in {3, 6}, pre \in StepPoints, post \in StepPoints }

\* a sensitive detector makes a hit of a step
ConstructHit ==
  \E storage \in Storages, step \in Steps, post \in BOOLEAN :
    /\ call.op = "none"
    /\ call' = [op |-> "hit", storage |-> storage, step |-> step, post |-> post]
    /\ out' = [thrown |-> FALSE, table |-> <<>>,
               hit |-> HitOfStep(storage, step, post)]
    /\ UNCHANGED <<collection, particles, event, extra, elsewhere>>

\* the hit is handed on and the next step is awaited
NextStep ==
  /\ call.op = "hit"
  /\ call' = NoCall
  /\ out' = NoOut
  /\ UNCHANGED <<collection, particles, event, extra, elsewhere>>

NextHit == ConstructHit \/ NextStep

SpecHit == Init /\ [][NextHit]_vars

(***************************************************************************)
(* C24: the constructor of a hit from a step, given a null step, returns   *)
(* without setting any field (the hit is as its members were before the    *)
(* body); given a step it sets track id, parent id, particle, chamber id   *)
(* and deposit from the track and the step whatever post is, and takes     *)
(* time, position, energy and momentum from the post-step point when post  *)
(* is true and from the pre-step point when post is false.                 *)
(***************************************************************************)
C24_HitOfStep ==
  call.op = "hit" =>
    LET hit  == out.hit
        step == call.step
    IN  IF step.address = nullptr
        THEN hit = DefaultMembers(call.storage)
        ELSE LET point == IF call.post THEN step.PostStepPoint
                                       ELSE step.PreStepPoint
                 other == HitOfStep(call.storage, step, ~call.post)
             IN  /\ hit._trackID   = step.Track.TrackID
                 /\ hit._parentID  = step.Track.ParentID
                 /\ hit._particle  = step.Track.ParticleDefinition
                 /\ hit._chamberID = step.Track.TopVolumeName
                 /\ hit._deposit   = step.TotalEnergyDeposit \div UnitsEnergy
                 /\ \A f \in {"_trackID", "_parentID", "_particle",
                              "_chamberID", "_deposit"} : hit[f] = other[f]
                 /\ hit._position[1] = point.GlobalTime \div UnitsTime
                 /\ \A j \in 1..3 :
                      hit._position[j + 1] = point.Position[j] \div UnitsLength
                 /\ hit._momentum[1] = point.TotalEnergy \div UnitsEnergy
                 /\ \A j \in 1..3 :
                      hit._momentum[j + 1] = point.Momentum[j] \div UnitsMomentum

\* a step whose two points differ in time, position, energy and momentum,
\* made into a hit with post true
C24_Witness ==
  /\ call.op = "hit"
  /\ call.step.address # nullptr
  /\ call.post
  /\ call.step.PreStepPoint.GlobalTime # call.step.PostStepPoint.GlobalTime
  /\ call.step.PreStepPoint.Position # call.step.PostStepPoint.Position
  /\ call.step.PreStepPoint.TotalEnergy # call.step.PostStepPoint.TotalEnergy
  /\ call.step.PreStepPoint.Momentum # call.step.PostStepPoint.Momentum
  /\ out.hit._position[3] = call.step.PostStepPoint.Position[2] \div UnitsLength
  /\ out.hit._momentum[3] = call.step.PostStepPoint.Momentum[2] \div UnitsMomentum

\* the cut filter accepts the collection under the bounds
Accepted(coll, bounds) == Cardinality(LayersReached(coll, bounds)) >= 3

Exports(coll, bounds) ==
  ConvertToAnalysisCut(coll, bounds, TRUE) = ConvertToAnalysisStold(coll)

\* the cut conversion leaves the table empty
Rejects(coll, bounds) ==
  IsEmptyHitTable(ConvertToAnalysisCut(coll, bounds, TRUE))

\* the accept/reject decisions agree
SameDecision(coll, other, bounds) ==
  Rejects(coll, bounds) <=> Rejects(other, bounds)

Reverse(s) == [j \in 1..Len(s) |-> s[Len(s) + 1 - j]]

\* s with its elements i and j exchanged
Swap(s, i, j) ==
  [k \in 1..Len(s) |-> IF k = i THEN s[j] ELSE IF k = j THEN s[i] ELSE s[k]]

(***************************************************************************)
(* C26: whether the cut filter accepts depends only on the set of distinct *)
(* layer indices reached by qualifying hits: the decision is the same for  *)
(* the hits in another order, with a hit given twice, and with             *)
(* non-qualifying hits added or taken away; the collection is accepted     *)
(* exactly when that set has at least 3 members, which fewer than 3        *)
(* qualifying hits can reach where intervals overlap.                      *)
(***************************************************************************)
C26_DecisionIsASetProperty ==
  IsCutCall =>
    LET bounds == call.layer_bounds
        coll   == collection
    IN  /\ \A i, j \in 1..Len(coll) :
             SameDecision(coll, Swap(coll, i, j), bounds)
        /\ SameDecision(coll, Reverse(coll), bounds)
        /\ \A i \in 1..Len(coll) :
             SameDecision(coll, Append(coll, coll[i]), bounds)
        /\ \A hit \in CutHits :
             ~Qualifies(hit) => SameDecision(coll, Append(coll, hit), bounds)
        /\ SameDecision(coll, SelectSeq(coll, Qualifies), bounds)
        /\ Accepted(coll, bounds) <=> ~Rejects(coll, bounds)
        /\ Accepted(coll, bounds) => Exports(coll, bounds)

\* one qualifying hit among three, inside three overlapping intervals: the
\* collection is accepted, as it is in the reverse order
C26_Witness ==
  /\ IsCutCall
  /\ call.layer_bounds = OverlapBounds
  /\ Len(collection) = 3
  /\ Len(SelectSeq(collection, Qualifies)) = 1
  /\ Qualifies(collection[3])
  /\ Cardinality(LayersReached(collection, OverlapBounds)) = 3
  /\ ~out.thrown
  /\ AllColumnsHaveLength(out.table, 3)
  /\ ~Rejects(Reverse(collection), OverlapBounds)

(***************************************************************************)
(* The columns of one event: the hit table, the GenParticle table and the  *)
(* extra table, one after the other.                                       *)
(***************************************************************************)
EventColumns(coll, parts, ex) ==
  ConvertToAnalysisStold(coll).table
    \o ConvertToAnalysisGen(parts, TRUE).table
    \o ConvertToAnalysisExtra(ex).table

\* the 1-based positions of the keys with the tag, in schema order
RECURSIVE PositionsOf(_, _, _)
PositionsOf(types, tag, k) ==
  IF k > Len(types) THEN <<>>
  ELSE (IF types[k] = tag THEN <<k>> ELSE <<>>) \o PositionsOf(types, tag, k + 1)

(***************************************************************************)
(* C27: the default schema has exactly 2 Single keys, NumHits at position  *)
(* 0 and NumGenParticles at position 15, and exactly 50 Vector keys;       *)
(* 50 = 14 + 20 + 16, so the hit, GenParticle and extra tables one after   *)
(* the other supply one vector column per Vector key in schema order: the  *)
(* 14 hit columns fall on the keys between the two counts, the 20          *)
(* GenParticle columns and the 16 extra columns on the keys after the      *)
(* second count, and a fill of a default table with 2 scalars and these    *)
(* columns succeeds.                                                       *)
(***************************************************************************)
C27_FiftyVectorColumns ==
  LET types   == DefaultDataKeyTypeList
      vectors == PositionsOf(types, "Vector", 1)
      columns == EventColumns(<<>>, <<>>, EmptyExtra)
  IN  /\ PositionsOf(types, "Single", 1) = <<1, 16>>
      /\ DefaultDataKeyList[1] = "NumHits"
      /\ DefaultDataKeyList[16] = "NumGenParticles"
      /\ CountOf(types, "Single") = 2
      /\ CountOf(types, "Vector") = 50
      /\ HitColumnCount + GenColumnCount + ExtraColumnCount = 50
      /\ Len(columns) = Len(vectors)
      /\ \A j \in 1..Len(vectors) :
           vectors[j] = IF j <= HitColumnCount THEN j + 1 ELSE j + 2
      /\ \A name \in TableNames :
           (IsDefaultTable(name) /\ ntuples[name].types = DefaultDataKeyTypeList)
             => /\ FillNTuple(ntuples, name, ntuples[name].types,
                              <<0, 0>>, columns).success
                /\ \A r \in 1..Len(ntuples[name].rows) :
                     /\ Len(ntuples[name].rows[r].single_values) = 2
                     /\ Len(ntuples[name].rows[r].vector_values) = Len(columns)

\* a default table takes a fill of 2 scalars and as many vector columns as
\* the three tables have together
C27_Witness ==
  /\ call.op = "FillNTuple"
  /\ out.success
  /\ IsDefaultTable(call.name)
  /\ call.types = DefaultDataKeyTypeList
  /\ Len(call.single_values) = 2
  /\ Len(call.vector_values) = Len(EventColumns(<<>>, <<>>, EmptyExtra))
  /\ Len(ntuples[call.name].rows) = 1

(***************************************************************************)
(* The life of a worker's pool.                                            *)
(***************************************************************************)
\* the step is an allocation by worker w
Allocates(w) == \E a \in DOMAIN owner' \ DOMAIN owner : owner'[a] = w

\* the step is the release of the live hit a by worker w
Releases(w, a) ==
  /\ a \in LiveHits
  /\ last'.op \in {"delete", "crash"}
  /\ last'.worker = w
  /\ last'.hit = a
  /\ last'.op = "delete" => a \notin DOMAIN heap'

(***************************************************************************)
(* C28: on a worker whose releases are of hits allocated on that worker,   *)
(* the pool is created exactly once, by the first allocation (the pointer  *)
(* is null until the worker allocates, every allocation leaves it          *)
(* non-null, and it changes only from null), it is never replaced, and it  *)
(* is the non-null pool that every release of an own hit acts on; a        *)
(* release on a worker that has never allocated acts on a null pool.       *)
(***************************************************************************)
C28_PoolCreatedOnce ==
  /\ [](\A a \in LiveHits : HitAllocator[owner[a]] # nullptr)
  /\ [][\A w \in Workers :
          /\ Allocates(w) => HitAllocator'[w] # nullptr
          /\ HitAllocator'[w] # HitAllocator[w]
               => /\ HitAllocator[w] = nullptr
                  /\ Allocates(w)
                  /\ HitAllocator'[w] = Len(pools')
                  /\ Len(pools') = Len(pools) + 1
          /\ HitAllocator[w] # nullptr => HitAllocator'[w] = HitAllocator[w]
          /\ \A a \in LiveHits :
               /\ (Releases(w, a) /\ owner[a] = w)
                    => /\ last'.op = "delete"
                       /\ last'.pool # nullptr
                       /\ last'.pool = HitAllocator[w]
               /\ (Releases(w, a) /\ HitAllocator[w] = nullptr)
                    => /\ last'.pool = nullptr
                       /\ owner[a] # w]_vars

\* worker w1 has allocated twice from its one pool and released a hit of
\* its own; worker w2 has never allocated
C28_Witness ==
  /\ last.op = "delete"
  /\ last.worker = "w1"
  /\ last.pool = HitAllocator["w1"]
  /\ HitAllocator["w1"] # nullptr
  /\ HitAllocator["w2"] = nullptr
  /\ Len(pools) = 1
  /\ pools[1].carved = 2
  /\ Cardinality(LiveHits) = 1

(***************************************************************************)
(* The UI session of main.                                                 *)
(***************************************************************************)
\* main is past the creation of the session (simulation.cc:60-64) and has
\* not exited
PastMakeUI ==
  pc \in {"check_incompatible", "set_up_run", "initialize", "init_vis", "run",
          "session", "in_session", "returned", "crashed"}

\* the visualization branch (simulation.cc:125-129) has run
VisBranchHasRun ==
  \E i \in 1..Len(commands) :
    commands[i] = <<"/control/execute", "scripts/settings/init_vis">>

(***************************************************************************)
(* C29: the UI session object is non-null wherever it is used.  Whenever   *)
(* the visualization branch runs (vis count non-zero) the object has been  *)
(* created, so ui->IsGUI() never goes through a null pointer; the object   *)
(* is created only at simulation.cc:60-64, when there is no argument at    *)
(* all or the vis flag was given, and then the vis count is non-zero; and  *)
(* the session is started and deleted exactly when the object was created. *)
(***************************************************************************)
C29_SessionOnlyWhenCreated ==
  /\ [](/\ pc # "crashed"
        /\ (PastMakeUI /\ options.vis # 0) => ui # nullptr
        /\ (PastMakeUI /\ ui # nullptr) => options.vis # 0
        /\ VisBranchHasRun => ui # nullptr
        /\ pc = "in_session" => ui # nullptr)
  /\ [][/\ ui' # ui => /\ pc = "make_ui"
                       /\ ui = nullptr
                       /\ ui' # nullptr
                       /\ options.argc = 1 \/ options.vis # 0
        /\ (pc = "make_ui" /\ (options.argc = 1 \/ options.vis # 0))
             => ui' # nullptr
        /\ pc = "session" => (pc' = "in_session" <=> ui # nullptr)
        /\ pc' = "in_session" => pc = "session"]_vars

\* the vis flag among other arguments: the session exists, the
\* visualization branch has asked it whether it is a GUI, and it is started
C29_Witness ==
  /\ pc = "in_session"
  /\ options.argc = 2
  /\ options.vis # 0
  /\ ui # nullptr
  /\ VisBranchHasRun
  /\ \E i \in 1..Len(commands) :
       commands[i] = <<"/control/execute", "scripts/settings/init_gui">>

====
